---- MODULE Spec2Model ----
(***************************************************************************)
(* Frame orchestration of the shadow-mapped forward renderer (Scene.cpp):  *)
(* RenderScene, RenderDepthBufferFromLight, RenderSceneFromCamera and      *)
(* UpdateScene, over an explicit model of the D3D11 device context, plus   *)
(* the per-pixel lighting of ShadowMapping_ps.hlsl.                        *)
(*                                                                         *)
(* Floats are fixed-point integers.  Time is counted in ticks of 0.25 s.   *)
(* Matrices, positions and colours that the code only passes around are    *)
(* symbolic records naming what they were computed from.                   *)
(*                                                                         *)
(* The device context holds the bindings the program commanded; the        *)
(* runtime's own hazard resolution (forced unbinding with a warning) is    *)
(* not modelled, so that a conflicting binding is visible.                 *)
(***************************************************************************)
EXTENDS Integers, Sequences, FiniteSets, TLC

\* ---------------------------------------------------------------- bounds
MaxFrames  == 2      \* calls of RenderScene explored
MaxUpdates == 2      \* calls of UpdateScene explored

\* ------------------------------------------------------ program constants
NUM_LIGHTS          == 2
gLightOrbit         == 20
gLightOrbitSpeed    == 7       \* 0.7 rad/s, in tenths
gSpotlightConeAngle == 90
gShadowMapSize      == 1024
gSpecularPower      == 256
fpsUpdateTime       == 2       \* 0.5 s, in ticks
One                 == 10      \* fixed-point image of 1.0f

\* depth value 1.0f passed to ClearDepthStencilView
FarDepth == One

Lights == 0 .. (NUM_LIGHTS - 1)

\* frame times (ticks) and externally controlled poses offered to UpdateScene
FrameTimes      == {0, 2}
TeapotPositions == {<<15, 0, 0>>, <<25, 0, 10>>}
CameraPoses     == {"cam_initial", "cam_moved"}

Null == "nullptr"

\* ------------------------------------------------------------- resources
gShadowMapDepthStencilMutant(i) == "gShadowMap1DepthStencil"
\* gShadowMap1DepthStencil / gShadowMap2DepthStencil, as used for light i
gShadowMapDepthStencil(i) ==
    IF i = 0 THEN "gShadowMap1DepthStencil" ELSE "gShadowMap2DepthStencil"

\* gShadowMap1SRV / gShadowMap2SRV
gShadowMapSRV(i) == IF i = 0 THEN "gShadowMap1SRV" ELSE "gShadowMap2SRV"

ShadowDSVs == {"gShadowMap1DepthStencil", "gShadowMap2DepthStencil"}
ShadowSRVs == {"gShadowMap1SRV", "gShadowMap2SRV"}

\* index of the shadow map a view belongs to
MapOfDSV(v) == IF v = "gShadowMap1DepthStencil" THEN 0 ELSE 1
MapOfSRV(v) == IF v = "gShadowMap1SRV" THEN 0 ELSE 1

ShadowViewport == [Width |-> gShadowMapSize, Height |-> gShadowMapSize]
MainViewport   == [Width |-> "gViewportWidth", Height |-> "gViewportHeight"]

\* ------------------------------------------------------- symbolic maths
Pos(x, y, z) == [kind |-> "fixed", at |-> <<x, y, z>>, angle |-> 0]
NoTarget     == [kind |-> "none", at |-> <<0, 0, 0>>, angle |-> 0]

\* teapot position + { cos(rotate)*gLightOrbit, 10, sin(rotate)*gLightOrbit }
OrbitPos(centre, rotate) == [kind |-> "orbit", at |-> centre, angle |-> rotate]

\* Model::WorldMatrix() of the named model
WorldMatrix(sc, name) == [op |-> "WorldMatrix", of |-> sc.models[name]]

\* InverseAffine(gLights[lightIndex].model->WorldMatrix())
CalculateLightViewMatrix(sc, lightIndex) ==
    [op |-> "InverseAffine", of |-> WorldMatrix(sc, sc.gLights[lightIndex].model)]

\* MakeProjectionMatrix(1.0f, ToRadians(gSpotlightConeAngle)): the index is unused
CalculateLightProjectionMatrix(lightIndex) ==
    [op |-> "MakeProjectionMatrix", aspect |-> 1, fov |-> gSpotlightConeAngle]

\* CMatrix4x4 operator*
MatMul(a, b) == [op |-> "mul", l |-> a, r |-> b]

CameraViewMatrix(cam)           == [op |-> "ViewMatrix", of |-> cam]
CameraProjectionMatrix(cam)     == [op |-> "ProjectionMatrix", of |-> cam]
CameraViewProjectionMatrix(cam) == [op |-> "ViewProjectionMatrix", of |-> cam]

NoMatrix == [op |-> "unset"]

\* cos(ToRadians(gSpotlightConeAngle / 2))
CosHalfAngle == [op |-> "cos", deg |-> gSpotlightConeAngle \div 2]

VARIABLES
    pc,                  \* position inside RenderScene and its callees
    scene,               \* CPU-side scene globals of Scene.cpp
    gPerFrameConstants,  \* CPU copy of the per-frame constants
    gPerModelConstants,  \* CPU copy of the per-model constants
    ctx,                 \* D3D11 device-context bindings
    gpu,                 \* contents of GPU resources
    gpuLog,              \* commands issued so far in the current frame
    prevLast,            \* last draw of the previous frame (or NoDraw)
    frames,              \* calls of RenderScene begun
    presents,            \* calls of Present
    updates,             \* calls of UpdateScene
    px,                  \* pixel-shader input under evaluation
    out,                 \* pixel-shader output
    app,                 \* InitGeometry / LoadShaders: position, resources, gLastError
    cbuf                 \* a constant buffer: its description and its contents

vars == <<pc, scene, gPerFrameConstants, gPerModelConstants, ctx, gpu,
          gpuLog, prevLast, frames, presents, updates, px, out, app, cbuf>>

renderVars == <<pc, scene, gPerFrameConstants, gPerModelConstants, ctx, gpu,
                gpuLog, prevLast, frames, presents, updates>>

\* ------------------------------------------------------ initial values
\* scene as left by InitScene; file-scope floats and function statics start at 0
InitialScene ==
    [ models |->
        [ gFloor   |-> [position |-> Pos(0, 0, 0),     facing |-> NoTarget],
          gTeapot  |-> [position |-> Pos(15, 0, 0),    facing |-> NoTarget],
          gSphere  |-> [position |-> Pos(40, 10, 30),  facing |-> NoTarget],
          gCube    |-> [position |-> Pos(-15, 10, 0),  facing |-> NoTarget],
          gTroll   |-> [position |-> Pos(10, 0, 15),   facing |-> NoTarget],
          gLights0 |-> [position |-> Pos(30, 20, 0),   facing |-> Pos(15, 0, 0)],
          gLights1 |-> [position |-> Pos(-20, 30, 20), facing |-> Pos(0, 0, 0)] ],
      gLights |->
        [ i \in Lights |->
            IF i = 0
            THEN [model |-> "gLights0",
                  colour |-> [kind |-> "rgb", v |-> <<8, 8, 10>>],
                  strength |-> [kind |-> "const", v |-> 10]]
            ELSE [model |-> "gLights1",
                  colour |-> [kind |-> "rgb", v |-> <<10, 8, 2>>],
                  strength |-> [kind |-> "const", v |-> 40]] ],
      gCamera        |-> "cam_initial",
      gWiggle        |-> 0,
      gShift         |-> 0,
      gFading        |-> [kind |-> "const", v |-> 0],
      lockFPS        |-> TRUE,
      totalTime      |-> 0,
      rotate         |-> 0,
      go             |-> TRUE,
      key1HitsOdd    |-> FALSE,
      totalFrameTime |-> 0,
      frameCount     |-> 0,
      windowTitle    |-> [total |-> 0, count |-> 0] ]

NoLight == [Position |-> NoTarget,
            Colour |-> [colour |-> [kind |-> "rgb", v |-> <<0, 0, 0>>],
                        strength |-> [kind |-> "const", v |-> 0]],
            Facing |-> NoMatrix, CosHalfAngle |-> NoMatrix,
            ViewMatrix |-> NoMatrix, ProjectionMatrix |-> NoMatrix]

\* PerFrameConstants of Common.h, zero-initialised global
InitialPerFrameConstants ==
    [ viewMatrix |-> NoMatrix, projectionMatrix |-> NoMatrix,
      viewProjectionMatrix |-> NoMatrix,
      light |-> [i \in Lights |-> NoLight],
      ambientColour |-> Null, specularPower |-> 0,
      cameraPosition |-> Null,
      wiggle |-> 0, shift |-> 0, fading |-> [kind |-> "const", v |-> 0] ]

\* PerModelConstants of Common.h
InitialPerModelConstants ==
    [ worldMatrix |-> NoMatrix, objectColour |-> [kind |-> "rgb", v |-> <<0, 0, 0>>] ]

\* device context before the first frame: nothing bound by this file yet
InitialContext ==
    [ viewport          |-> [Width |-> 0, Height |-> 0],
      renderTarget      |-> Null,
      depthStencilView  |-> Null,
      VS                |-> Null,
      PS                |-> Null,
      blendState        |-> Null,
      depthStencilState |-> Null,
      rasterState       |-> Null,
      psSRV             |-> [s \in 0 .. 3 |-> Null],
      psSampler         |-> [s \in 0 .. 1 |-> Null],
      vsCB0             |-> Null,
      psCB0             |-> Null ]

NeverWritten == [clearedIn |-> 0, depth |-> 0, drawn |-> {}]

InitialGpu ==
    [ perFrame   |-> InitialPerFrameConstants,
      perModel   |-> InitialPerModelConstants,
      shadowMap  |-> [i \in Lights |-> NeverWritten],
      mainDepth  |-> NeverWritten,
      backBuffer |-> [clearedIn |-> 0, colour |-> Null, drawn |-> {}] ]

Idle == [fn |-> "Idle", at |-> "idle", i |-> 0, k |-> 0]
At(fn, at)        == [fn |-> fn, at |-> at, i |-> 0, k |-> 0]
AtL(fn, at, i, k) == [fn |-> fn, at |-> at, i |-> i, k |-> k]

\* ------------------------------------------------------- pixel-shader io
NoPixel  == [valid |-> FALSE]
NoOutput == [shaded |-> FALSE]
\* InitGeometry has returned true and the frame loop runs
Running  == [at |-> "running"]
\* no constant buffer under examination
NoBuffer == [created |-> FALSE]

\* ------------------------------------------------- device context calls
OMSetRenderTargets(c, rtv, dsv) ==
    [c EXCEPT !.renderTarget = rtv, !.depthStencilView = dsv]
RSSetViewports(c, vp)          == [c EXCEPT !.viewport = vp]
VSSetShader(c, sh)             == [c EXCEPT !.VS = sh]
PSSetShader(c, sh)             == [c EXCEPT !.PS = sh]
OMSetBlendState(c, st)         == [c EXCEPT !.blendState = st]
OMSetDepthStencilState(c, st)  == [c EXCEPT !.depthStencilState = st]
RSSetState(c, st)              == [c EXCEPT !.rasterState = st]
PSSetShaderResources(c, slot, v) == [c EXCEPT !.psSRV[slot] = v]
PSSetSamplers(c, slot, smp)    == [c EXCEPT !.psSampler[slot] = smp]
SetConstantBuffers0(c, buf)    == [c EXCEPT !.vsCB0 = buf, !.psCB0 = buf]

\* ClearDepthStencilView(dsv, D3D11_CLEAR_DEPTH, depth, 0) in frame f
ClearDepthStencilView(g, dsv, depth, f) ==
    IF dsv \in ShadowDSVs
    THEN [g EXCEPT !.shadowMap[MapOfDSV(dsv)] =
                       [clearedIn |-> f, depth |-> depth, drawn |-> {}]]
    ELSE [g EXCEPT !.mainDepth = [clearedIn |-> f, depth |-> depth, drawn |-> {}]]

\* ClearRenderTargetView(gBackBufferRenderTarget, &gBackgroundColor.r)
ClearRenderTargetView(g, colour, f) ==
    [g EXCEPT !.backBuffer = [clearedIn |-> f, colour |-> colour, drawn |-> {}]]

\* what one draw call writes, given the targets and depth state bound
DrawInto(g, c, what) ==
    LET writesDepth == c.depthStencilState = "gUseDepthBufferState"
        g1 == IF writesDepth /\ c.depthStencilView \in ShadowDSVs
              THEN [g EXCEPT !.shadowMap[MapOfDSV(c.depthStencilView)].drawn = @ \cup {what}]
              ELSE IF writesDepth /\ c.depthStencilView = "gDepthStencil"
              THEN [g EXCEPT !.mainDepth.drawn = @ \cup {what}]
              ELSE g
    IN  IF c.renderTarget = "gBackBufferRenderTarget"
        THEN [g1 EXCEPT !.backBuffer.drawn = @ \cup {what}]
        ELSE g1

\* one entry of the command log
Event(op, pass, light, group, arg, value, c, g) ==
    [op |-> op, pass |-> pass, light |-> light, group |-> group, arg |-> arg,
     value |-> value, ctx |-> c, cb |-> g.perFrame, pm |-> g.perModel,
     maps |-> g.shadowMap]

NoDraw == [op |-> "none"]

\* --------------------------------------------------------- Model::Render
\* Model::Render(): sends the model's world matrix in the per-model constant
\* buffer, then draws its mesh with whatever is bound
RenderModel(name, pass, light, group, pmc, c, g, log, sc) ==
    LET pm1 == [pmc EXCEPT !.worldMatrix = WorldMatrix(sc, name)]
        g1  == [g EXCEPT !.perModel = pm1]
    IN  [pm  |-> pm1,
         gpu |-> DrawInto(g1, c, name),
         log |-> Append(log, Event("draw", pass, light, group, name, 0, c, g1))]

\* UpdateConstantBuffer(gPerFrameConstantBuffer, gPerFrameConstants)
UpdateConstantBuffer(g, data) == [g EXCEPT !.perFrame = data]

\* ------------------------------------------------- pipeline state bundles
ShadowPassStatesKept(c) == RSSetState(c, "gCullFrontState")
ShadowPassStatesMutant(c) ==
    RSSetState(OMSetDepthStencilState(c, "gUseDepthBufferState"), "gCullBackState")
\* RenderDepthBufferFromLight: blend, depth and rasteriser state of the shadow pass
ShadowPassStates(c) ==
    RSSetState(OMSetDepthStencilState(OMSetBlendState(c, "gNoBlendingState"),
                                      "gUseDepthBufferState"), "gCullFrontState")

\* RenderSceneFromCamera: states of the lit models
LitStates(c) ==
    RSSetState(OMSetDepthStencilState(OMSetBlendState(c, "gNoBlendingState"),
                                      "gUseDepthBufferState"), "gCullBackState")

OutlineStatesMutant(c) ==
    RSSetState(OMSetDepthStencilState(OMSetBlendState(c, "gNoBlendingState"),
                                      "gUseDepthBufferState"), "gCullBackState")
\* RenderSceneFromCamera: states of the outline pass
OutlineStates(c) ==
    RSSetState(OMSetDepthStencilState(OMSetBlendState(c, "gNoBlendingState"),
                                      "gUseDepthBufferState"), "gCullFrontState")

CellShadingStatesMutant(c) == c
\* RenderSceneFromCamera: "switch back to the usual back face culling"
CellShadingStates(c) == RSSetState(c, "gCullBackState")

LightModelStatesMutant(c) ==
    RSSetState(OMSetDepthStencilState(OMSetBlendState(c, "gAdditiveBlendingState"),
                                      "gDepthReadOnlyState"), "gCullBackState")
\* RenderSceneFromCamera: states of the light markers
LightModelStates(c) ==
    RSSetState(OMSetDepthStencilState(OMSetBlendState(c, "gAdditiveBlendingState"),
                                      "gDepthReadOnlyState"), "gCullNoneState")

BindShadowMapsOnlySecond(c) ==
    PSSetSamplers(PSSetShaderResources(c, 2, gShadowMapSRV(1)), 1, "gPointSampler")
BindShadowMapsMutant(c) ==
    PSSetShaderResources(PSSetShaderResources(c, 1, gShadowMapSRV(0)), 2, gShadowMapSRV(1))
\* RenderScene: shadow maps into slots 1 and 2, point sampler into sampler slot 1
BindShadowMaps(c) ==
    PSSetSamplers(
        PSSetShaderResources(PSSetShaderResources(c, 1, gShadowMapSRV(0)),
                             2, gShadowMapSRV(1)),
        1, "gPointSampler")

UnbindShadowMapsMutant(c) == PSSetShaderResources(c, 1, Null)
UnbindShadowMapsSkipped(c) == c
\* RenderScene: null view into slots 1 and 2
UnbindShadowMaps(c) ==
    PSSetShaderResources(PSSetShaderResources(c, 1, Null), 2, Null)

ShadowCastersMutant == <<"gFloor", "gTeapot", "gSphere", "gCube", "gLights0">>
\* models drawn by RenderDepthBufferFromLight, in order
ShadowCasters == <<"gFloor", "gTeapot", "gSphere", "gCube", "gTroll">>

\* models of the light markers
LightModels == {"gLights0", "gLights1"}

AfterShadowPassMutant(i) == At("RenderScene", "bindMain")
\* RenderScene: what follows the return of RenderDepthBufferFromLight(i)
AfterShadowPass(i) ==
    IF i = 0 THEN AtL("RenderScene", "bind", 1, 0) ELSE At("RenderScene", "bindMain")

\* last draw of a command log, or the fallback
LastDrawOf(log, fallback) ==
    LET idx == {n \in 1 .. Len(log) : log[n].op = "draw"}
    IN  IF idx = {} THEN fallback
        ELSE log[CHOOSE n \in idx : \A m \in idx : m <= n]

\* ------------------------------------------------------------ RenderScene
\* RenderScene: light and effect data into gPerFrameConstants (not uploaded yet)
RS_Begin ==
    /\ pc = Idle
    /\ frames < MaxFrames
    /\ gPerFrameConstants' =
         [gPerFrameConstants EXCEPT
            !.light = [i \in Lights |->
                [Position         |-> scene.models[scene.gLights[i].model].position,
                 Colour           |-> [colour   |-> scene.gLights[i].colour,
                                       strength |-> scene.gLights[i].strength],
                 Facing           |-> [op |-> "Normalise(ZAxis)",
                                       of |-> WorldMatrix(scene, scene.gLights[i].model)],
                 CosHalfAngle     |-> CosHalfAngle,
                 ViewMatrix       |-> CalculateLightViewMatrix(scene, i),
                 ProjectionMatrix |-> CalculateLightProjectionMatrix(i)]],
            !.ambientColour  = "gAmbientColour",
            !.specularPower  = gSpecularPower,
            !.cameraPosition = scene.gCamera,
            !.wiggle         = scene.gWiggle,
            !.shift          = scene.gShift,
            !.fading         = scene.gFading]
    /\ frames' = frames + 1
    /\ prevLast' = LastDrawOf(gpuLog, prevLast)
    /\ gpuLog' = <<>>
    /\ pc' = At("RenderScene", "viewport")
    /\ UNCHANGED <<scene, gPerModelConstants, ctx, gpu, presents, updates, px, out, app, cbuf>>

\* RenderScene: viewport of the size of the shadow map
RS_ShadowViewport ==
    /\ pc = At("RenderScene", "viewport")
    /\ ctx' = RSSetViewports(ctx, ShadowViewport)
    /\ pc' = AtL("RenderScene", "bind", 0, 0)
    /\ UNCHANGED <<scene, gPerFrameConstants, gPerModelConstants, gpu, gpuLog,
                   prevLast, frames, presents, updates, px, out, app, cbuf>>

\* RenderScene: OMSetRenderTargets(0, nullptr, shadow map i's depth view)
RS_BindShadowMap(i) ==
    /\ pc = AtL("RenderScene", "bind", i, 0)
    /\ ctx' = OMSetRenderTargets(ctx, Null, gShadowMapDepthStencil(i))
    /\ pc' = AtL("RenderScene", "clear", i, 0)
    /\ UNCHANGED <<scene, gPerFrameConstants, gPerModelConstants, gpu, gpuLog,
                   prevLast, frames, presents, updates, px, out, app, cbuf>>

\* RenderScene: clear shadow map i to the far distance
RS_ClearShadowMap(i) ==
    /\ pc = AtL("RenderScene", "clear", i, 0)
    /\ gpu' = ClearDepthStencilView(gpu, gShadowMapDepthStencil(i), FarDepth, frames)
    /\ gpuLog' = Append(gpuLog, Event("clear", "Shadow", i, "ShadowCasters",
                                      gShadowMapDepthStencil(i), FarDepth, ctx, gpu'))
    /\ pc' = AtL("RenderDepthBufferFromLight", "constants", i, 0)
    /\ UNCHANGED <<scene, gPerFrameConstants, gPerModelConstants, ctx,
                   prevLast, frames, presents, updates, px, out, app, cbuf>>

\* ---------------------------------------------- RenderDepthBufferFromLight
LightPassConstantsNotInverse(pfc, sc, lightIndex) ==
    LET view == WorldMatrix(sc, sc.gLights[lightIndex].model)
        proj == CalculateLightProjectionMatrix(lightIndex)
    IN  [pfc EXCEPT !.viewMatrix = view, !.projectionMatrix = proj,
                    !.viewProjectionMatrix = MatMul(view, proj)]
LightPassConstantsMutant(pfc, sc, lightIndex) ==
    [pfc EXCEPT
        !.viewMatrix           = CalculateLightViewMatrix(sc, 0),
        !.projectionMatrix     = CalculateLightProjectionMatrix(0),
        !.viewProjectionMatrix = MatMul(CalculateLightViewMatrix(sc, 0),
                                        CalculateLightProjectionMatrix(0))]
\* RenderDepthBufferFromLight: camera-like matrices of the spotlight
LightPassConstants(pfc, sc, lightIndex) ==
    LET view == CalculateLightViewMatrix(sc, lightIndex)
        proj == CalculateLightProjectionMatrix(lightIndex)
    IN  [pfc EXCEPT !.viewMatrix = view, !.projectionMatrix = proj,
                    !.viewProjectionMatrix = MatMul(view, proj)]

\* RenderDepthBufferFromLight: set the matrices, upload, bind buffer to VS and PS
RDB_Constants(i) ==
    /\ pc = AtL("RenderDepthBufferFromLight", "constants", i, 0)
    /\ gPerFrameConstants' = LightPassConstants(gPerFrameConstants, scene, i)
    /\ gpu' = UpdateConstantBuffer(gpu, gPerFrameConstants')
    /\ ctx' = SetConstantBuffers0(ctx, "gPerFrameConstantBuffer")
    /\ gpuLog' = Append(gpuLog, Event("upload", "Shadow", i, "ShadowCasters",
                                      "gPerFrameConstantBuffer", 0, ctx', gpu'))
    /\ pc' = AtL("RenderDepthBufferFromLight", "shaders", i, 0)
    /\ UNCHANGED <<scene, gPerModelConstants, prevLast, frames, presents, updates,
                   px, out, app, cbuf>>

\* RenderDepthBufferFromLight: depth-only shader pair
RDB_Shaders(i) ==
    /\ pc = AtL("RenderDepthBufferFromLight", "shaders", i, 0)
    /\ ctx' = PSSetShader(VSSetShader(ctx, "gBasicTransformVertexShader"),
                          "gDepthOnlyPixelShader")
    /\ pc' = AtL("RenderDepthBufferFromLight", "states", i, 0)
    /\ UNCHANGED <<scene, gPerFrameConstants, gPerModelConstants, gpu, gpuLog,
                   prevLast, frames, presents, updates, px, out, app, cbuf>>

\* RenderDepthBufferFromLight: blend, depth and rasteriser states
RDB_States(i) ==
    /\ pc = AtL("RenderDepthBufferFromLight", "states", i, 0)
    /\ ctx' = ShadowPassStates(ctx)
    /\ pc' = AtL("RenderDepthBufferFromLight", "draw", i, 1)
    /\ UNCHANGED <<scene, gPerFrameConstants, gPerModelConstants, gpu, gpuLog,
                   prevLast, frames, presents, updates, px, out, app, cbuf>>

\* RenderDepthBufferFromLight: the k-th Render() of the shadow casters
RDB_Draw(i, k) ==
    /\ pc = AtL("RenderDepthBufferFromLight", "draw", i, k)
    /\ k \in 1 .. Len(ShadowCasters)
    /\ LET r == RenderModel(ShadowCasters[k], "Shadow", i, "ShadowCasters",
                            gPerModelConstants, ctx, gpu, gpuLog, scene)
       IN  /\ gPerModelConstants' = r.pm
           /\ gpu' = r.gpu
           /\ gpuLog' = r.log
    /\ pc' = IF k < Len(ShadowCasters)
             THEN AtL("RenderDepthBufferFromLight", "draw", i, k + 1)
             ELSE AfterShadowPass(i)
    /\ UNCHANGED <<scene, gPerFrameConstants, ctx, prevLast, frames, presents,
                   updates, px, out, app, cbuf>>

\* ------------------------------------------------ RenderScene, main scene
\* RenderScene: back buffer and main depth buffer as targets
RS_BindMain ==
    /\ pc = At("RenderScene", "bindMain")
    /\ ctx' = OMSetRenderTargets(ctx, "gBackBufferRenderTarget", "gDepthStencil")
    /\ pc' = At("RenderScene", "clearMain")
    /\ UNCHANGED <<scene, gPerFrameConstants, gPerModelConstants, gpu, gpuLog,
                   prevLast, frames, presents, updates, px, out, app, cbuf>>

\* RenderScene: clear the back buffer and the main depth buffer
RS_ClearMain ==
    /\ pc = At("RenderScene", "clearMain")
    /\ LET g1 == ClearRenderTargetView(gpu, "gBackgroundColor", frames)
           g2 == ClearDepthStencilView(g1, "gDepthStencil", FarDepth, frames)
       IN  /\ gpu' = g2
           /\ gpuLog' = gpuLog \o
                << Event("clear", "Camera", -1, "Frame", "gBackBufferRenderTarget",
                         0, ctx, g1),
                   Event("clear", "Camera", -1, "Frame", "gDepthStencil",
                         FarDepth, ctx, g2) >>
    /\ pc' = At("RenderScene", "mainViewport")
    /\ UNCHANGED <<scene, gPerFrameConstants, gPerModelConstants, ctx,
                   prevLast, frames, presents, updates, px, out, app, cbuf>>

\* RenderScene: viewport of the size of the main window
RS_MainViewport ==
    /\ pc = At("RenderScene", "mainViewport")
    /\ ctx' = RSSetViewports(ctx, MainViewport)
    /\ pc' = At("RenderScene", "bindShadowMaps")
    /\ UNCHANGED <<scene, gPerFrameConstants, gPerModelConstants, gpu, gpuLog,
                   prevLast, frames, presents, updates, px, out, app, cbuf>>

\* RenderScene: shadow maps as shader inputs
RS_BindShadowMaps ==
    /\ pc = At("RenderScene", "bindShadowMaps")
    /\ ctx' = BindShadowMaps(ctx)
    /\ pc' = At("RenderSceneFromCamera", "constants")
    /\ UNCHANGED <<scene, gPerFrameConstants, gPerModelConstants, gpu, gpuLog,
                   prevLast, frames, presents, updates, px, out, app, cbuf>>

\* RenderScene: null views into slots 1 and 2 after the camera pass
RS_UnbindShadowMaps ==
    /\ pc = At("RenderScene", "unbind")
    /\ ctx' = UnbindShadowMaps(ctx)
    /\ pc' = At("RenderScene", "present")
    /\ UNCHANGED <<scene, gPerFrameConstants, gPerModelConstants, gpu, gpuLog,
                   prevLast, frames, presents, updates, px, out, app, cbuf>>

\* RenderScene: gSwapChain->Present(lockFPS ? 1 : 0, 0)
RS_Present ==
    /\ pc = At("RenderScene", "present")
    /\ gpuLog' = Append(gpuLog, Event("present", "Frame", -1, "Frame", "gSwapChain",
                                      IF scene.lockFPS THEN 1 ELSE 0, ctx, gpu))
    /\ presents' = presents + 1
    /\ pc' = Idle
    /\ UNCHANGED <<scene, gPerFrameConstants, gPerModelConstants, ctx, gpu,
                   prevLast, frames, updates, px, out, app, cbuf>>

\* --------------------------------------------------- RenderSceneFromCamera
\* RenderSceneFromCamera: the camera's matrices
CameraPassConstants(pfc, camera) ==
    [pfc EXCEPT !.viewMatrix           = CameraViewMatrix(camera),
                !.projectionMatrix     = CameraProjectionMatrix(camera),
                !.viewProjectionMatrix = CameraViewProjectionMatrix(camera)]

\* RenderSceneFromCamera: set the matrices, upload, bind buffer to VS and PS
RSC_Constants ==
    /\ pc = At("RenderSceneFromCamera", "constants")
    /\ gPerFrameConstants' = CameraPassConstants(gPerFrameConstants, scene.gCamera)
    /\ gpu' = UpdateConstantBuffer(gpu, gPerFrameConstants')
    /\ ctx' = SetConstantBuffers0(ctx, "gPerFrameConstantBuffer")
    /\ gpuLog' = Append(gpuLog, Event("upload", "Camera", -1, "Frame",
                                      "gPerFrameConstantBuffer", 0, ctx', gpu'))
    /\ pc' = At("RenderSceneFromCamera", "floor")
    /\ UNCHANGED <<scene, gPerModelConstants, prevLast, frames, presents, updates,
                   px, out, app, cbuf>>

\* one render group of the camera pass: bindings c1, then the model's Render()
CameraGroup(here, next, c1, name, group) ==
    /\ pc = At("RenderSceneFromCamera", here)
    /\ ctx' = c1
    /\ LET r == RenderModel(name, "Camera", -1, group, gPerModelConstants, c1, gpu,
                            gpuLog, scene)
       IN  /\ gPerModelConstants' = r.pm
           /\ gpu' = r.gpu
           /\ gpuLog' = r.log
    /\ pc' = next
    /\ UNCHANGED <<scene, gPerFrameConstants, prevLast, frames, presents, updates,
                   px, out, app, cbuf>>

\* RenderSceneFromCamera: lit shaders, states, floor texture, sampler; draw the floor
RSC_Floor ==
    CameraGroup("floor", At("RenderSceneFromCamera", "teapot"),
        PSSetSamplers(
          PSSetShaderResources(
            LitStates(PSSetShader(VSSetShader(ctx, "gPixelLightingVertexShader"),
                                  "gPixelLightingPixelShader")),
            0, "gFloorDiffuseSpecularMapSRV"),
          0, "gAnisotropic4xSampler"),
        "gFloor", "Floor")

\* RenderSceneFromCamera: teapot texture; draw the teapot
RSC_Teapot ==
    CameraGroup("teapot", At("RenderSceneFromCamera", "cube"),
        PSSetShaderResources(ctx, 0, "gTeapotDiffuseSpecularMapSRV"),
        "gTeapot", "Teapot")

\* RenderSceneFromCamera: mixing-textures pixel shader, two textures; draw the cube
RSC_Cube ==
    CameraGroup("cube", At("RenderSceneFromCamera", "sphere"),
        PSSetShaderResources(
          PSSetShaderResources(PSSetShader(ctx, "gMixingTexturesPixelShader"),
                               0, "gCubeDiffuseSpecularMapSRV"),
          3, "gFloorDiffuseSpecularMapSRV"),
        "gCube", "Cube")

\* RenderSceneFromCamera: scrolling pixel shader, wiggling vertex shader; draw the sphere
RSC_Sphere ==
    CameraGroup("sphere", At("RenderSceneFromCamera", "outline"),
        PSSetShaderResources(
          VSSetShader(PSSetShader(ctx, "gScrollingPixelShader"), "gWigglingVertexShader"),
          0, "gSphereDiffuseSpecularMapSRV"),
        "gSphere", "Sphere")

\* RenderSceneFromCamera: outline shaders and states; draw the troll inside out
RSC_TrollOutline ==
    CameraGroup("outline", At("RenderSceneFromCamera", "cell"),
        OutlineStates(PSSetShader(VSSetShader(ctx, "gCellShadingOutlineVertexShader"),
                                  "gCellShadingOutlinePixelShader")),
        "gTroll", "TrollOutline")

\* RenderSceneFromCamera: cell-shading shaders, culling, textures; draw the troll
RSC_TrollCell ==
    CameraGroup("cell", At("RenderSceneFromCamera", "lights"),
        PSSetSamplers(
          PSSetShaderResources(
            PSSetSamplers(
              PSSetShaderResources(
                CellShadingStates(
                  PSSetShader(VSSetShader(ctx, "gCellShadingVertexShader"),
                              "gCellShadingPixelShader")),
                0, "gTrollDiffuseMapSRV"),
              0, "gAnisotropic4xSampler"),
            1, "gCellMapSRV"),
          1, "gPointSampler"),
        "gTroll", "TrollCell")

\* RenderSceneFromCamera: shaders, texture, sampler and states of the light markers
RSC_LightsSetup ==
    /\ pc = At("RenderSceneFromCamera", "lights")
    /\ ctx' = LightModelStates(
                PSSetSamplers(
                  PSSetShaderResources(
                    PSSetShader(VSSetShader(ctx, "gBasicTransformVertexShader"),
                                "gLightModelPixelShader"),
                    0, "gLightDiffuseMapSRV"),
                  0, "gAnisotropic4xSampler"))
    /\ pc' = AtL("RenderSceneFromCamera", "light", 0, 0)
    /\ UNCHANGED <<scene, gPerFrameConstants, gPerModelConstants, gpu, gpuLog,
                   prevLast, frames, presents, updates, px, out, app, cbuf>>

\* RenderSceneFromCamera: body of the loop over gLights
RSC_Light(i) ==
    /\ pc = AtL("RenderSceneFromCamera", "light", i, 0)
    /\ i < NUM_LIGHTS
    /\ LET pmc == [gPerModelConstants EXCEPT !.objectColour = scene.gLights[i].colour]
           r   == RenderModel(scene.gLights[i].model, "Camera", -1, "Lights", pmc, ctx,
                              gpu, gpuLog, scene)
       IN  /\ gPerModelConstants' = r.pm
           /\ gpu' = r.gpu
           /\ gpuLog' = r.log
    /\ pc' = IF i + 1 < NUM_LIGHTS
             THEN AtL("RenderSceneFromCamera", "light", i + 1, 0)
             ELSE At("RenderScene", "unbind")
    /\ UNCHANGED <<scene, gPerFrameConstants, ctx, prevLast, frames, presents,
                   updates, px, out, app, cbuf>>

\* ------------------------------------------------------------ UpdateScene
OrbitStepMutant(rotate, go, frameTime, key1) ==
    LET now == IF key1 THEN ~go ELSE go
    IN  [rotate |-> IF now THEN rotate - gLightOrbitSpeed * frameTime ELSE rotate,
         go     |-> now]
\* if (go)  rotate -= gLightOrbitSpeed * frameTime;
\* if (KeyHit(Key_1))  go = !go;
OrbitStep(rotate, go, frameTime, key1) ==
    [rotate |-> IF go THEN rotate - gLightOrbitSpeed * frameTime ELSE rotate,
     go     |-> IF key1 THEN ~go ELSE go]

\* UpdateScene(frameTime): teapot and camera are moved by their Control(),
\* key1 / keyP are the results of KeyHit(Key_1) / KeyHit(Key_P)
\* (key1HitsOdd: the number of Key_1 hits so far is odd; history, not a variable
\* of the program)
UpdateScene(frameTime, teapotAt, cameraAt, key1, keyP) ==
    /\ pc = Idle
    /\ updates < MaxUpdates
    /\ LET totalTime == scene.totalTime + frameTime
           teapot    == [kind |-> "fixed", at |-> teapotAt, angle |-> 0]
           total     == scene.totalFrameTime + frameTime
           count     == scene.frameCount + 1
       IN  scene' =
             [scene EXCEPT
                !.models.gTeapot.position  = teapot,
                !.totalTime                = totalTime,
                !.gLights[1].strength      = [kind |-> "20*(1+sin)", v |-> totalTime],
                !.gLights[0].colour        = [kind |-> "sin",
                                              v |-> <<totalTime, totalTime, totalTime>>],
                !.gWiggle                  = @ + frameTime * 6,
                !.gShift                   = @ + frameTime \div 2,
                !.gFading                  = [kind |-> "(sin(t/3)+1)/2", v |-> totalTime],
                !.models.gLights0.position = OrbitPos(teapotAt, scene.rotate),
                !.models.gLights0.facing   = teapot,
                !.rotate                   = OrbitStep(scene.rotate, scene.go,
                                                       frameTime, key1).rotate,
                !.go                       = OrbitStep(scene.rotate, scene.go,
                                                       frameTime, key1).go,
                !.key1HitsOdd              = IF key1 THEN ~@ ELSE @,
                !.gCamera                  = cameraAt,
                !.lockFPS                  = IF keyP THEN ~@ ELSE @,
                !.totalFrameTime           = IF total > fpsUpdateTime THEN 0 ELSE total,
                !.frameCount               = IF total > fpsUpdateTime THEN 0 ELSE count,
                !.windowTitle              = IF total > fpsUpdateTime
                                             THEN [total |-> total, count |-> count]
                                             ELSE @]
    /\ updates' = updates + 1
    /\ UNCHANGED <<pc, gPerFrameConstants, gPerModelConstants, ctx, gpu, gpuLog,
                   prevLast, frames, presents, px, out, app, cbuf>>

\* ---------------------------------------------------------- specification
Init ==
    /\ pc = Idle
    /\ scene = InitialScene
    /\ gPerFrameConstants = InitialPerFrameConstants
    /\ gPerModelConstants = InitialPerModelConstants
    /\ ctx = InitialContext
    /\ gpu = InitialGpu
    /\ gpuLog = <<>>
    /\ prevLast = NoDraw
    /\ frames = 0
    /\ presents = 0
    /\ updates = 0
    /\ px = NoPixel
    /\ out = NoOutput
    /\ app = Running
    /\ cbuf = NoBuffer

Next ==
    \/ \E ft \in FrameTimes, tp \in TeapotPositions, cam \in CameraPoses,
          key1 \in BOOLEAN, keyP \in BOOLEAN :
            UpdateScene(ft, tp, cam, key1, keyP)
    \/ RS_Begin
    \/ RS_ShadowViewport
    \/ \E i \in Lights : RS_BindShadowMap(i)
    \/ \E i \in Lights : RS_ClearShadowMap(i)
    \/ \E i \in Lights : RDB_Constants(i)
    \/ \E i \in Lights : RDB_Shaders(i)
    \/ \E i \in Lights : RDB_States(i)
    \/ \E i \in Lights, k \in 1 .. Len(ShadowCasters) : RDB_Draw(i, k)
    \/ RS_BindMain
    \/ RS_ClearMain
    \/ RS_MainViewport
    \/ RS_BindShadowMaps
    \/ RSC_Constants
    \/ RSC_Floor
    \/ RSC_Teapot
    \/ RSC_Cube
    \/ RSC_Sphere
    \/ RSC_TrollOutline
    \/ RSC_TrollCell
    \/ RSC_LightsSetup
    \/ \E i \in Lights : RSC_Light(i)
    \/ RS_UnbindShadowMaps
    \/ RS_Present

Spec == Init /\ [][Next]_vars

\* =================================================================== claims
\* ------------------------------------------------------ log vocabulary
LogIdx == 1 .. Len(gpuLog)
DrawIdx == {n \in LogIdx : gpuLog[n].op = "draw"}
ShadowDrawIdx(i) == {n \in DrawIdx : gpuLog[n].pass = "Shadow" /\ gpuLog[n].light = i}
CameraDrawIdx == {n \in DrawIdx : gpuLog[n].pass = "Camera"}
PresentIdx == {n \in LogIdx : gpuLog[n].op = "present"}
UploadIdx(pass, light) ==
    {n \in LogIdx : /\ gpuLog[n].op = "upload"
                    /\ gpuLog[n].arg = "gPerFrameConstantBuffer"
                    /\ gpuLog[n].pass = pass /\ gpuLog[n].light = light}
ClearIdx(target) == {n \in LogIdx : gpuLog[n].op = "clear" /\ gpuLog[n].arg = target}

MinOf(S) == CHOOSE n \in S : \A m \in S : n <= m
MaxOf(S) == CHOOSE n \in S : \A m \in S : m <= n

\* phase of a logged command: 1, 2 = shadow pass of light 0, 1; 3 = camera pass; 4 = Present
PhaseOf(e) == IF e.pass = "Shadow" THEN e.light + 1
              ELSE IF e.pass = "Camera" THEN 3 ELSE 4

\* phase the program counter is in (0 = outside the passes)
PhaseOfPc ==
    IF pc.fn = "RenderDepthBufferFromLight" THEN pc.i + 1
    ELSE IF pc.fn = "RenderScene" /\ pc.at \in {"bind", "clear"} THEN pc.i + 1
    ELSE IF pc.fn = "RenderSceneFromCamera" THEN 3
    ELSE IF pc.fn = "RenderScene" /\ pc.at \in {"bindMain", "clearMain", "mainViewport",
                                                "bindShadowMaps", "unbind"} THEN 3
    ELSE IF pc.fn = "RenderScene" /\ pc.at = "present" THEN 4
    ELSE 0

DrawsOfPhase(p) == {n \in DrawIdx : PhaseOf(gpuLog[n]) = p}
\* draws of a complete phase: five shadow casters, eight camera-pass draws
DrawsPerPhase(p) == IF p = 3 THEN 8 ELSE 5

\* the draws of the previous frame's end and of this frame, in order
DrawSeq ==
    (IF prevLast.op = "draw" THEN <<prevLast>> ELSE <<>>)
        \o SelectSeq(gpuLog, LAMBDA e : e.op = "draw")

\* C1: every RenderScene runs shadow pass 0, shadow pass 1, camera pass, Present in
\* this order; a phase has issued all its draws before a command of a later phase
\* is issued; Present is issued once per frame, after the last camera-pass draw;
\* no phase is entered again before the frame's Present.
C1_FramePhasesInOrder ==
    /\ \A m, n \in LogIdx : m < n => PhaseOf(gpuLog[m]) <= PhaseOf(gpuLog[n])
    /\ \A n \in LogIdx : \A p \in 1 .. 3 :
           p < PhaseOf(gpuLog[n]) =>
               Cardinality({m \in DrawsOfPhase(p) : m < n}) = DrawsPerPhase(p)
    /\ \A p \in 1 .. 3 : Cardinality(DrawsOfPhase(p)) <= DrawsPerPhase(p)
    /\ \A p \in 1 .. 3 :
           PhaseOfPc > p => Cardinality(DrawsOfPhase(p)) = DrawsPerPhase(p)
    /\ \A p \in 1 .. 3 : (PhaseOfPc # 0 /\ PhaseOfPc < p) => DrawsOfPhase(p) = {}
    /\ Cardinality(PresentIdx) <= 1
    /\ PresentIdx # {} => (pc = Idle /\ MaxOf(LogIdx) \in PresentIdx)
    /\ presents = IF pc = Idle THEN frames ELSE frames - 1
    /\ (pc = Idle /\ frames > 0) => Cardinality(PresentIdx) = 1

C1_Witness ==
    /\ pc = Idle /\ frames = 2 /\ presents = 2
    /\ Cardinality(DrawIdx) = DrawsPerPhase(1) + DrawsPerPhase(2) + DrawsPerPhase(3)

\* C2: a camera-pass draw that has shadow map i bound as a shader input finds the map
\* cleared in this frame and every shadow caster drawn into it since that clear, the
\* clear and those draws being earlier commands of the same frame.
C2_ShadowMapWrittenBeforeSampled ==
    \A n \in CameraDrawIdx : \A i \in Lights :
        (\E s \in 0 .. 3 : gpuLog[n].ctx.psSRV[s] = gShadowMapSRV(i)) =>
            /\ gpuLog[n].maps[i].clearedIn = frames
            /\ gpuLog[n].maps[i].drawn = {ShadowCasters[k] : k \in 1 .. Len(ShadowCasters)}
            /\ \E c \in ClearIdx(gShadowMapDepthStencil(i)) :
                   /\ c < n
                   /\ \A k \in 1 .. Len(ShadowCasters) :
                          \E d \in ShadowDrawIdx(i) :
                              /\ c < d /\ d < n
                              /\ gpuLog[d].arg = ShadowCasters[k]
                              /\ gpuLog[d].ctx.depthStencilView = gShadowMapDepthStencil(i)
                              /\ gpuLog[d].ctx.depthStencilState = "gUseDepthBufferState"

C2_Witness ==
    /\ frames = 2
    /\ \E n \in CameraDrawIdx :
           /\ gpuLog[n].ctx.psSRV[1] = gShadowMapSRV(0)
           /\ gpuLog[n].ctx.psSRV[2] = gShadowMapSRV(1)

\* C3: no shadow map is at once the depth render target and in a pixel-shader
\* resource slot: with a shadow map as depth target no slot holds a shadow map, and
\* with a shadow map in a slot the depth target is the main depth buffer.
C3_NoDualRoleBinding ==
    /\ ctx.depthStencilView \in ShadowDSVs =>
           \A s \in 0 .. 3 : ctx.psSRV[s] \notin ShadowSRVs
    /\ (\E s \in 0 .. 3 : ctx.psSRV[s] \in ShadowSRVs) =>
           ctx.depthStencilView = "gDepthStencil"

C3_Witness ==
    /\ frames = 2
    /\ ctx.depthStencilView = gShadowMapDepthStencil(0)
    /\ prevLast.op = "draw"
    /\ prevLast.ctx.psSRV[2] = gShadowMapSRV(1)

\* C4 (as stated): the draw that follows a group which altered the pipeline state
\* (troll outline, light markers) is issued with the default states: no blending,
\* depth buffer in use, back-face culling.
DefaultStates(c) ==
    /\ c.blendState = "gNoBlendingState"
    /\ c.depthStencilState = "gUseDepthBufferState"
    /\ c.rasterState = "gCullBackState"

AlteringGroups == {"TrollOutline", "Lights"}

C4_Original ==
    \A n \in 2 .. Len(DrawSeq) :
        (DrawSeq[n - 1].group \in AlteringGroups /\ DrawSeq[n].group # DrawSeq[n - 1].group)
            => DefaultStates(DrawSeq[n].ctx)

\* C4 (amended): the group drawn after a state-altering group is drawn with no
\* blending and the depth buffer in use; its culling is back-face when it is a
\* camera-pass group and front-face when it is the following frame's shadow pass;
\* the first camera-pass group (floor) is always drawn with all three defaults.
C4_AlteredStatesReplaced ==
    /\ \A n \in 2 .. Len(DrawSeq) :
           (DrawSeq[n - 1].group \in AlteringGroups
                /\ DrawSeq[n].group # DrawSeq[n - 1].group) =>
               /\ DrawSeq[n].ctx.blendState = "gNoBlendingState"
               /\ DrawSeq[n].ctx.depthStencilState = "gUseDepthBufferState"
               /\ DrawSeq[n].ctx.rasterState =
                      IF DrawSeq[n].pass = "Camera" THEN "gCullBackState"
                                                    ELSE "gCullFrontState"
    /\ \A n \in CameraDrawIdx :
           gpuLog[n].group = "Floor" => DefaultStates(gpuLog[n].ctx)

C4_Witness ==
    /\ frames = 2
    /\ prevLast.op = "draw" /\ prevLast.group = "Lights"
    /\ prevLast.ctx.rasterState = "gCullNoneState"
    /\ \E n \in CameraDrawIdx : gpuLog[n].group = "TrollCell"

\* C5: every draw of the shadow pass of light i is issued with the viewport at
\* shadow-map resolution, light i's depth view as only target (no colour target),
\* that view cleared to 1.0 after it was bound and before the pass's first draw, the
\* depth-only shader pair, front-face culling, no blending and depth testing on.
C5_ShadowPassDrawState ==
    \A i \in Lights : \A n \in ShadowDrawIdx(i) :
        LET e == gpuLog[n] IN
        /\ e.ctx.viewport = ShadowViewport
        /\ e.ctx.depthStencilView = gShadowMapDepthStencil(i)
        /\ e.ctx.renderTarget = Null
        /\ e.maps[i].clearedIn = frames
        /\ e.maps[i].depth = FarDepth
        /\ \E c \in ClearIdx(gShadowMapDepthStencil(i)) :
               /\ c < MinOf(ShadowDrawIdx(i))
               /\ gpuLog[c].value = FarDepth
               /\ gpuLog[c].ctx.depthStencilView = gShadowMapDepthStencil(i)
               /\ gpuLog[c].ctx.renderTarget = Null
        /\ e.ctx.VS = "gBasicTransformVertexShader"
        /\ e.ctx.PS = "gDepthOnlyPixelShader"
        /\ e.ctx.rasterState = "gCullFrontState"
        /\ e.ctx.blendState = "gNoBlendingState"
        /\ e.ctx.depthStencilState = "gUseDepthBufferState"

C5_Witness ==
    /\ frames = 2
    /\ \E n \in ShadowDrawIdx(1) : gpuLog[n].arg = "gTroll"
    /\ prevLast.op = "draw" /\ prevLast.ctx.blendState = "gAdditiveBlendingState"

\* number of draws of a model in the shadow pass of light i
ShadowDrawCount(i, name) == Cardinality({n \in ShadowDrawIdx(i) : gpuLog[n].arg = name})

\* C6: in each light's shadow pass floor, teapot, sphere, cube and troll are each
\* drawn exactly once into that light's depth map, and no light marker is drawn.
C6_ShadowCastersDrawnOnce ==
    \A i \in Lights :
        /\ \A n \in ShadowDrawIdx(i) :
               /\ gpuLog[n].arg \notin LightModels
               /\ gpuLog[n].ctx.depthStencilView = gShadowMapDepthStencil(i)
        /\ \A name \in {"gFloor", "gTeapot", "gSphere", "gCube", "gTroll"} :
               /\ ShadowDrawCount(i, name) <= 1
               /\ (PhaseOfPc > i + 1 \/ PresentIdx # {}) =>
                      /\ ShadowDrawCount(i, name) = 1
                      /\ name \in gpu.shadowMap[i].drawn
        /\ gpu.shadowMap[i].drawn \cap LightModels = {}

C6_Witness ==
    /\ pc = Idle /\ frames = 2
    /\ \A i \in Lights : ShadowDrawCount(i, "gTroll") = 1

\* the camera's matrices are in the buffer contents b
HoldsCameraMatrices(b, camera) ==
    /\ b.viewMatrix = CameraViewMatrix(camera)
    /\ b.projectionMatrix = CameraProjectionMatrix(camera)
    /\ b.viewProjectionMatrix = CameraViewProjectionMatrix(camera)

\* light i's matrices are in the buffer contents b
HoldsLightMatrices(b, sc, i) ==
    /\ b.viewMatrix = CalculateLightViewMatrix(sc, i)
    /\ b.projectionMatrix = CalculateLightProjectionMatrix(i)
    /\ b.viewProjectionMatrix = MatMul(b.viewMatrix, b.projectionMatrix)

\* C7: at the first draw of the camera pass, and after the last shadow-pass draw:
\* back buffer and main depth buffer are the targets and both were cleared (depth to
\* 1.0), the viewport is the main window's, the per-frame constants were uploaded with
\* the camera's matrices, shadow maps 1 and 2 are in slots 1 and 2 and the point
\* sampler is in sampler slot 1.
C7_CameraPassPrepared ==
    CameraDrawIdx # {} =>
        LET f == MinOf(CameraDrawIdx)
            l == MaxOf(ShadowDrawIdx(0) \cup ShadowDrawIdx(1) \cup {0})
            e == gpuLog[f]
        IN  /\ l > 0
            /\ e.ctx.renderTarget = "gBackBufferRenderTarget"
            /\ e.ctx.depthStencilView = "gDepthStencil"
            /\ \E c \in ClearIdx("gBackBufferRenderTarget") :
                   /\ l < c /\ c < f
                   /\ gpuLog[c].ctx.renderTarget = "gBackBufferRenderTarget"
            /\ \E c \in ClearIdx("gDepthStencil") :
                   /\ l < c /\ c < f
                   /\ gpuLog[c].value = FarDepth
                   /\ gpuLog[c].ctx.depthStencilView = "gDepthStencil"
            /\ gpu.backBuffer.clearedIn = frames
            /\ gpu.mainDepth.clearedIn = frames /\ gpu.mainDepth.depth = FarDepth
            /\ e.ctx.viewport = MainViewport
            /\ \E u \in UploadIdx("Camera", -1) :
                   /\ l < u /\ u < f
                   /\ gpuLog[u].cb = e.cb
            /\ pc # Idle => HoldsCameraMatrices(e.cb, scene.gCamera)
            /\ e.ctx.vsCB0 = "gPerFrameConstantBuffer"
            /\ e.ctx.psCB0 = "gPerFrameConstantBuffer"
            /\ e.ctx.psSRV[1] = gShadowMapSRV(0)
            /\ e.ctx.psSRV[2] = gShadowMapSRV(1)
            /\ e.ctx.psSampler[1] = "gPointSampler"

C7_Witness ==
    /\ frames = 2 /\ pc # Idle
    /\ scene.gCamera = "cam_moved"
    /\ CameraDrawIdx # {}
    /\ gpuLog[MinOf(CameraDrawIdx)].arg = "gFloor"

\* C8: at the end of every camera pass, after its last draw and before Present,
\* slots 1 and 2 are null; they stay null until the next frame has bound the main
\* targets again, so no shadow map is a shader input when one is bound as depth target.
C8_ShadowMapsUnboundAtPassEnd ==
    /\ pc = At("RenderScene", "present") =>
           /\ ctx.psSRV[1] = Null /\ ctx.psSRV[2] = Null
           /\ Cardinality(CameraDrawIdx) = DrawsPerPhase(3)
    /\ \A n \in PresentIdx :
           /\ gpuLog[n].ctx.psSRV[1] = Null /\ gpuLog[n].ctx.psSRV[2] = Null
           /\ \A d \in DrawIdx : d < n
    /\ (pc = Idle \/ PhaseOfPc \in {1, 2} \/ pc = At("RenderScene", "viewport")) =>
           /\ ctx.psSRV[1] = Null /\ ctx.psSRV[2] = Null
           /\ \A s \in 0 .. 3 : ctx.psSRV[s] \notin ShadowSRVs

C8_Witness ==
    /\ frames = 2
    /\ pc = AtL("RenderScene", "clear", 0, 0)
    /\ ctx.depthStencilView = gShadowMapDepthStencil(0)
    /\ prevLast.op = "draw"
    /\ prevLast.ctx.psSRV[1] = "gCellMapSRV"
    /\ prevLast.ctx.psSRV[2] = gShadowMapSRV(1)

\* draws of a pass
PassDrawIdx(pass, light) ==
    {n \in DrawIdx : gpuLog[n].pass = pass /\ gpuLog[n].light = light}

Passes == {<<"Shadow", 0>>, <<"Shadow", 1>>, <<"Camera", -1>>}

\* C9: the per-frame constants are uploaded once per render pass (three times per
\* frame), before the pass's first draw; the shadow pass of light i uploads light i's
\* view and projection matrices and their product, the camera pass the camera's
\* matrices; every draw of a pass reads the matrices uploaded for that pass.
C9_PerFrameConstantsPerPass ==
    /\ \A p \in Passes :
           LET ups == UploadIdx(p[1], p[2])
               drs == PassDrawIdx(p[1], p[2])
           IN  /\ Cardinality(ups) <= 1
               /\ drs # {} =>
                      /\ Cardinality(ups) = 1
                      /\ \A u \in ups : u < MinOf(drs)
                      /\ \A u \in ups : \A d \in drs :
                             /\ gpuLog[d].cb = gpuLog[u].cb
                             /\ ~ \E v \in LogIdx : /\ u < v /\ v < d
                                                    /\ gpuLog[v].op = "upload"
                                                    /\ gpuLog[v].arg = "gPerFrameConstantBuffer"
               /\ pc # Idle =>
                      \A u \in ups :
                          IF p[1] = "Shadow"
                          THEN HoldsLightMatrices(gpuLog[u].cb, scene, p[2])
                          ELSE HoldsCameraMatrices(gpuLog[u].cb, scene.gCamera)
    /\ PresentIdx # {} =>
           Cardinality({n \in LogIdx : gpuLog[n].op = "upload"
                                       /\ gpuLog[n].arg = "gPerFrameConstantBuffer"}) = 3

C9_Witness ==
    /\ frames = 2 /\ pc = At("RenderScene", "present")
    /\ scene.models.gLights0.position.kind = "orbit"
    /\ scene.gCamera = "cam_moved"
    /\ \A p \in Passes : Cardinality(UploadIdx(p[1], p[2])) = 1

\* ====================================================== ShadowMapping_ps.hlsl
\* Fixed-point arithmetic: a float f is the integer f * One.
Max2(a, b) == IF a >= b THEN a ELSE b
Min2(a, b) == IF a <= b THEN a ELSE b
FMul(a, b) == (a * b) \div One
FDiv(a, b) == (a * One) \div b

\* float3 helpers
V3Zero        == <<0, 0, 0>>
V3Add(a, b)   == <<a[1] + b[1], a[2] + b[2], a[3] + b[3]>>
V3Mul(a, b)   == <<FMul(a[1], b[1]), FMul(a[2], b[2]), FMul(a[3], b[3])>>
V3Scale(a, k) == <<FMul(a[1], k), FMul(a[2], k), FMul(a[3], k)>>
V3Over(a, k)  == <<FDiv(a[1], k), FDiv(a[2], k), FDiv(a[3], k)>>

\* pow(x, p) for x >= 0 and a natural exponent
RECURSIVE Pow(_, _)
Pow(x, p) == IF p = 0 THEN One
             ELSE IF p % 2 = 0 THEN LET h == Pow(x, p \div 2) IN FMul(h, h)
             ELSE FMul(x, Pow(x, p - 1))

\* side length, in texels, of the shadow maps sampled by the pixel model
ShadowTexels == 2

\* Texture2D.Sample with the point/clamp sampler: nearest texel, coordinates clamped
PointClampSample(tex, uv) ==
    LET texel(t) == Min2(Max2((t * ShadowTexels) \div One, 0), ShadowTexels - 1)
    IN  tex[<<texel(uv[1]), texel(uv[2])>>]

ShadowMapUVMutant(proj) ==
    LET u == FDiv(FMul(One \div 2, proj.x), proj.w) + One \div 2
        v == FDiv(FMul(One \div 2, proj.y), proj.w) + One \div 2
    IN  <<u, v>>
\* shadowMapUV = 0.5f * proj.xy / proj.w + float2(0.5f, 0.5f);  uv.y = 1.0f - uv.y
ShadowMapUV(proj) ==
    LET u == FDiv(FMul(One \div 2, proj.x), proj.w) + One \div 2
        v == FDiv(FMul(One \div 2, proj.y), proj.w) + One \div 2
    IN  <<u, One - v>>

\* depthFromLight = proj.z / proj.w  (the DepthAdjust term is commented out)
DepthFromLight(proj) == FDiv(proj.z, proj.w)

InConeMutant(coneDot, cosHalfAngle) == coneDot >= cosHalfAngle
\* if (dot(lightDirection, -gLightFacing) > gLightCosHalfAngle)
InCone(coneDot, cosHalfAngle) == coneDot > cosHalfAngle

NotShadowedMutant(proj, shadowMap) ==
    DepthFromLight(proj) <= PointClampSample(shadowMap, ShadowMapUV(proj))
\* if (depthFromLight < ShadowMapLight.Sample(PointClamp, shadowMapUV).r)
NotShadowed(proj, shadowMap) ==
    DepthFromLight(proj) < PointClampSample(shadowMap, ShadowMapUV(proj))

\* the block "LIGHT 1" / "LIGHT 2" of main: diffuse and specular light of one light
\*   l.coneDot = dot(lightDirection, -facing), l.proj = position in light clip space,
\*   l.nDotL = dot(normal, lightDirection), l.nDotH = dot(normal, halfway),
\*   l.dist = length(lightPosition - worldPosition)
LightContribution(l, colour, cosHalfAngle, specularPower, shadowMap) ==
    IF InCone(l.coneDot, cosHalfAngle) /\ NotShadowed(l.proj, shadowMap)
    THEN LET diffuse == V3Over(V3Scale(colour, Max2(l.nDotL, 0)), l.dist)
         IN  [diffuse  |-> diffuse,
              specular |-> V3Scale(diffuse, Pow(Max2(l.nDotH, 0), specularPower))]
    ELSE [diffuse |-> V3Zero, specular |-> V3Zero]

ShadowMapping_psMutant(p) ==
    LET l1 == LightContribution(p.light[1], p.cb.lightColour[1], p.cb.cosHalfAngle[1],
                                p.cb.specularPower, p.shadowMap[1])
        l2 == LightContribution(p.light[2], p.cb.lightColour[2], p.cb.cosHalfAngle[2],
                                p.cb.specularPower, p.shadowMap[2])
        diffuseLight  == V3Add(V3Add(p.cb.ambientColour, l1.diffuse),
                               V3Add(p.cb.ambientColour, l2.diffuse))
        specularLight == V3Add(l1.specular, l2.specular)
        finalColour   == V3Add(V3Mul(diffuseLight, p.texture.rgb),
                               V3Scale(specularLight, p.texture.a))
    IN  [shaded |-> TRUE, shader |-> "ShadowMapping_ps",
         contribution |-> <<l1, l2>>,
         rgb |-> finalColour, a |-> One]
\* main of ShadowMapping_ps.hlsl
ShadowMapping_ps(p) ==
    LET l1 == LightContribution(p.light[1], p.cb.lightColour[1], p.cb.cosHalfAngle[1],
                                p.cb.specularPower, p.shadowMap[1])
        l2 == LightContribution(p.light[2], p.cb.lightColour[2], p.cb.cosHalfAngle[2],
                                p.cb.specularPower, p.shadowMap[2])
        diffuseLight  == V3Add(V3Add(p.cb.ambientColour, l1.diffuse), l2.diffuse)
        specularLight == V3Add(l1.specular, l2.specular)
        finalColour   == V3Add(V3Mul(diffuseLight, p.texture.rgb),
                               V3Scale(specularLight, p.texture.a))
    IN  [shaded |-> TRUE, shader |-> "ShadowMapping_ps",
         contribution |-> <<l1, l2>>,
         rgb |-> finalColour, a |-> One]

\* ------------------------------------------------------ pixel inputs explored
\* constants as RenderScene uploads them from the initial scene:
\* light colour * strength, cos(45 degrees), gAmbientColour, gSpecularPower
PixelConstants ==
    [ lightColour   |-> <<V3Scale(<<8, 8, 10>>, 10 * One), V3Scale(<<10, 8, 2>>, 40 * One)>>,
      cosHalfAngle  |-> <<7, 7>>,
      ambientColour |-> <<2, 2, 3>>,
      specularPower |-> gSpecularPower ]

\* shadow-map contents: nothing in front, an occluder in the top row, one in the bottom row
TexelCoords == (0 .. ShadowTexels - 1) \X (0 .. ShadowTexels - 1)

ShadowTextures ==
    { [t \in TexelCoords |-> One],
      [t \in TexelCoords |-> IF t[2] = 0 THEN One \div 2 ELSE One],
      [t \in TexelCoords |-> IF t[2] = ShadowTexels - 1 THEN One \div 2 ELSE One] }

PixelLights ==
    [ coneDot : {5, 7, 10},
      proj    : [x : {0}, y : {-One, One}, z : {One \div 2, One}, w : {One}],
      nDotL   : {-5, One},
      nDotH   : {One},
      dist    : {2 * One} ]

DiffuseTextures == { [rgb |-> <<One, One, One>>, a |-> 0],
                     [rgb |-> <<5, One, 0>>, a |-> One] }

PixelInputs ==
    { [valid |-> TRUE, PS |-> "gPixelLightingPixelShader",
       light |-> <<a, b>>, cb |-> PixelConstants,
       shadowMap |-> <<s, t>>, texture |-> d] :
          a \in PixelLights, b \in PixelLights,
          s \in ShadowTextures, t \in ShadowTextures, d \in DiffuseTextures }

\* the rasteriser hands one pixel to the standard lit pixel shader
ShadePixel ==
    /\ px.valid
    /\ px.PS = "gPixelLightingPixelShader"
    /\ ~out.shaded
    /\ out' = ShadowMapping_ps(px)
    /\ UNCHANGED <<px, pc, scene, gPerFrameConstants, gPerModelConstants, ctx, gpu,
                   gpuLog, prevLast, frames, presents, updates, app, cbuf>>

\* ====================================================== CellShading_ps.hlsl
\* length, in texels, of the 1-D cell map
CellTexels == 2

\* CellMap.Sample(PointSampleClamp, diffuseLevel).r : nearest texel, clamped
CellMapSample(cellMap, u) ==
    cellMap[Min2(Max2((u * CellTexels) \div One, 0), CellTexels - 1)]

\* the block "Light 1" / "Light 2" of main: no cone test and no shadow-map lookup
CellLightContribution(l, colour, specularPower, cellMap) ==
    LET diffuseLevel     == Max2(l.nDotL, 0)
        cellDiffuseLevel == CellMapSample(cellMap, diffuseLevel)
        diffuse          == V3Over(V3Scale(colour, cellDiffuseLevel), l.dist)
    IN  [diffuse  |-> diffuse,
         specular |-> V3Scale(diffuse, Pow(Max2(l.nDotH, 0), specularPower))]

\* main of CellShading_ps.hlsl
CellShading_ps(p) ==
    LET l1 == CellLightContribution(p.light[1], p.cb.lightColour[1],
                                    p.cb.specularPower, p.cellMap)
        l2 == CellLightContribution(p.light[2], p.cb.lightColour[2],
                                    p.cb.specularPower, p.cellMap)
        finalColour ==
            V3Add(V3Mul(V3Add(V3Add(p.cb.ambientColour, l1.diffuse), l2.diffuse),
                        p.texture.rgb),
                  V3Scale(V3Add(l1.specular, l2.specular), p.texture.a))
    IN  [shaded |-> TRUE, shader |-> "CellShading_ps",
         contribution |-> <<l1, l2>>,
         rgb |-> finalColour, a |-> One]

\* ====================================================== CellShadingOutline_ps.hlsl
\* main: return float4(0, 0, 0, 1.0f)
CellShadingOutline_ps(p) ==
    [shaded |-> TRUE, shader |-> "CellShadingOutline_ps",
     contribution |-> <<>>, rgb |-> V3Zero, a |-> One]

\* ====================================================== Scrolling_ps.hlsl
\* width and height, in texels, of the diffuse map sampled by the scrolling shader
DiffuseTexels == 2

\* DiffuseMap.Sample(Bilinear, uv) at texel resolution, wrapping in u and in v
DiffuseMapSample(diffuseMap, uv) ==
    diffuseMap[<<((uv[1] * DiffuseTexels) \div One) % DiffuseTexels,
                 ((uv[2] * DiffuseTexels) \div One) % DiffuseTexels>>]

Scrolling_psShiftsU(p) ==
    LET uv            == <<p.uv[1] + p.cb.shift, p.uv[2] + p.cb.shift>>
        textureColour == DiffuseMapSample(p.diffuseMap, uv).rgb
    IN  [shaded |-> TRUE, shader |-> "Scrolling_ps",
         contribution |-> <<>>,
         rgb |-> <<FMul(textureColour[1], 3), FMul(textureColour[2], 7),
                   FMul(textureColour[3], 2)>>,
         a |-> One]

Scrolling_psMutant(p) ==
    LET uv            == <<p.uv[1], p.uv[2] + p.cb.shift>>
        textureColour == DiffuseMapSample(p.diffuseMap, uv)
    IN  [shaded |-> TRUE, shader |-> "Scrolling_ps",
         contribution |-> <<>>,
         rgb |-> <<FMul(textureColour.rgb[1], 3), FMul(textureColour.rgb[2], 7),
                   FMul(textureColour.rgb[3], 2)>>,
         a |-> textureColour.a]
\* main of Scrolling_ps.hlsl: the sample is taken into a float3, so the texture's
\* alpha is dropped; colour.a is assigned 1.0f
Scrolling_ps(p) ==
    LET uv            == <<p.uv[1], p.uv[2] + p.cb.shift>>
        textureColour == DiffuseMapSample(p.diffuseMap, uv).rgb
    IN  [shaded |-> TRUE, shader |-> "Scrolling_ps",
         contribution |-> <<>>,
         rgb |-> <<FMul(textureColour[1], 3), FMul(textureColour[2], 7),
                   FMul(textureColour[3], 2)>>,
         a |-> One]

\* ------------------------------------------------------ further pixel inputs
\* cell maps: a dark band then full light; the dark band is black or dim
CellMaps ==
    { [t \in 0 .. CellTexels - 1 |-> IF t = CellTexels - 1 THEN One ELSE dark] :
          dark \in {0, 3} }

\* pixels of the troll: the lit shader's input structure, with the cell map in slot 1
CellInputs ==
    { [valid |-> TRUE, PS |-> "gCellShadingPixelShader",
       light |-> <<a, b>>, cb |-> PixelConstants,
       shadowMap |-> <<s, t>>, texture |-> d, cellMap |-> c] :
          a \in PixelLights, b \in PixelLights,
          s \in ShadowTextures, t \in ShadowTextures, d \in DiffuseTextures,
          c \in CellMaps }

\* pixels of the troll's outline: BasicPixelShaderInput carries nothing the shader reads
OutlineInputs == { [valid |-> TRUE, PS |-> "gCellShadingOutlinePixelShader"] }

DiffuseMaps ==
    { [t \in (0 .. DiffuseTexels - 1) \X (0 .. DiffuseTexels - 1) |->
          [rgb |-> <<(One * (t[1] + 1)) \div DiffuseTexels,
                     (One * (t[2] + 1)) \div DiffuseTexels, k>>, a |-> k]] :
          k \in {0, One} }

\* pixels of the sphere: uv from the wiggling vertex shader, shift from UpdateScene
ScrollingInputs ==
    { [valid |-> TRUE, PS |-> "gScrollingPixelShader",
       uv |-> <<u, v>>, cb |-> [shift |-> sh], diffuseMap |-> m] :
          u \in {0, 5}, v \in {0, 5, One}, sh \in {0, 5, 2 * One + 5},
          m \in DiffuseMaps }

ShadeCellPixel ==
    /\ px.valid
    /\ px.PS = "gCellShadingPixelShader"
    /\ ~out.shaded
    /\ out' = CellShading_ps(px)
    /\ UNCHANGED <<px, pc, scene, gPerFrameConstants, gPerModelConstants, ctx, gpu,
                   gpuLog, prevLast, frames, presents, updates, app, cbuf>>

ShadeOutlinePixel ==
    /\ px.valid
    /\ px.PS = "gCellShadingOutlinePixelShader"
    /\ ~out.shaded
    /\ out' = CellShadingOutline_ps(px)
    /\ UNCHANGED <<px, pc, scene, gPerFrameConstants, gPerModelConstants, ctx, gpu,
                   gpuLog, prevLast, frames, presents, updates, app, cbuf>>

ShadeScrollingPixel ==
    /\ px.valid
    /\ px.PS = "gScrollingPixelShader"
    /\ ~out.shaded
    /\ out' = Scrolling_ps(px)
    /\ UNCHANGED <<px, pc, scene, gPerFrameConstants, gPerModelConstants, ctx, gpu,
                   gpuLog, prevLast, frames, presents, updates, app, cbuf>>

InitPixel ==
    /\ pc = Idle
    /\ scene = InitialScene
    /\ gPerFrameConstants = InitialPerFrameConstants
    /\ gPerModelConstants = InitialPerModelConstants
    /\ ctx = InitialContext
    /\ gpu = InitialGpu
    /\ gpuLog = <<>>
    /\ prevLast = NoDraw
    /\ frames = 0
    /\ presents = 0
    /\ updates = 0
    /\ px \in PixelInputs \cup CellInputs \cup OutlineInputs \cup ScrollingInputs
    /\ out = NoOutput
    /\ app = Running
    /\ cbuf = NoBuffer

NextPixel ==
    \/ ShadePixel
    \/ ShadeCellPixel
    \/ ShadeOutlinePixel
    \/ ShadeScrollingPixel

SpecPixel == InitPixel /\ [][NextPixel]_vars

\* C10: in the standard lit pixel shader, for each light L and every pixel with
\* dot(Ldir, -F) <= L's cone cosine (equality included), L's diffuse and specular
\* contributions are exactly zero, whatever the shadow map holds.
C10_OutsideConeContributesNothing ==
    (out.shaded /\ out.shader = "ShadowMapping_ps") =>
        \A L \in 1 .. 2 :
            px.light[L].coneDot <= px.cb.cosHalfAngle[L] =>
                /\ out.contribution[L].diffuse = V3Zero
                /\ out.contribution[L].specular = V3Zero

C10_Witness ==
    /\ out.shaded
    /\ out.shader = "ShadowMapping_ps"
    /\ px.light[1].coneDot = px.cb.cosHalfAngle[1]
    /\ NotShadowed(px.light[1].proj, px.shadowMap[1])
    /\ px.light[1].nDotL > 0
    /\ px.light[2].coneDot > px.cb.cosHalfAngle[2]
    /\ out.contribution[2].diffuse # V3Zero
    /\ out.contribution[2].specular # V3Zero

\* C11: in the standard lit pixel shader, for both lights, a light contributes
\* only when the pixel's depth from the light, proj.z / proj.w with no bias
\* subtracted, is strictly less than the depth sampled from that light's shadow
\* map; at equal depth the pixel is in shadow and the light adds exactly zero.
C11_ShadowTestStrict ==
    (out.shaded /\ out.shader = "ShadowMapping_ps") =>
        \A L \in 1 .. 2 :
            LET proj    == px.light[L].proj
                sampled == PointClampSample(px.shadowMap[L], ShadowMapUV(proj))
            IN  FDiv(proj.z, proj.w) >= sampled =>
                    /\ out.contribution[L].diffuse = V3Zero
                    /\ out.contribution[L].specular = V3Zero

C11_Witness ==
    /\ out.shaded
    /\ out.shader = "ShadowMapping_ps"
    /\ InCone(px.light[1].coneDot, px.cb.cosHalfAngle[1])
    /\ px.light[1].nDotL > 0
    /\ FDiv(px.light[1].proj.z, px.light[1].proj.w)
           = PointClampSample(px.shadowMap[1], ShadowMapUV(px.light[1].proj))
    /\ out.contribution[1].diffuse = V3Zero
    /\ InCone(px.light[2].coneDot, px.cb.cosHalfAngle[2])
    /\ FDiv(px.light[2].proj.z, px.light[2].proj.w)
           < PointClampSample(px.shadowMap[2], ShadowMapUV(px.light[2].proj))
    /\ out.contribution[2].diffuse # V3Zero

\* the shadow-map texel row whose depth decided light L of the shaded pixel, for a
\* lit surface inside the cone: the rows whose depth agrees with the light's outcome
DecidingRows(L) ==
    LET proj   == px.light[L].proj
        column == Min2(Max2((ShadowMapUV(proj)[1] * ShadowTexels) \div One, 0),
                       ShadowTexels - 1)
        lit    == out.contribution[L].diffuse # V3Zero
    IN  { row \in 0 .. ShadowTexels - 1 :
            lit <=> (FDiv(proj.z, proj.w) < px.shadowMap[L][<<column, row>>]) }

\* C12 as stated: a point with projected y = -1 maps to shadow-map v = 0.
C12_Original ==
    (out.shaded /\ out.shader = "ShadowMapping_ps") =>
        \A L \in 1 .. 2 :
            FDiv(px.light[L].proj.y, px.light[L].proj.w) = -One =>
                ShadowMapUV(px.light[L].proj)[2] = 0

\* C12 (amended): with uv = 0.5*xy/w + 0.5 followed by v = 1 - v, for both lights
\* a point with projected y = +1 (the top of the light's view) maps to v = 0 and
\* a point with projected y = -1 maps to v = 1; the light of a lit surface inside
\* the cone is then decided by the first, respectively the last, texel row.
C12_TopOfViewMapsToVZero ==
    (out.shaded /\ out.shader = "ShadowMapping_ps") =>
        \A L \in 1 .. 2 :
            LET proj  == px.light[L].proj
                y     == FDiv(proj.y, proj.w)
                gated == /\ InCone(px.light[L].coneDot, px.cb.cosHalfAngle[L])
                         /\ px.light[L].nDotL > 0
            IN  /\ y = One =>
                      /\ ShadowMapUV(proj)[2] = 0
                      /\ gated => 0 \in DecidingRows(L)
                /\ y = -One =>
                      /\ ShadowMapUV(proj)[2] = One
                      /\ gated => (ShadowTexels - 1) \in DecidingRows(L)

\* light 1 looks at the top of its view, where only the first texel row holds an
\* occluder, and is shadowed; light 2 looks at the bottom of the same map and is lit
C12_Witness ==
    /\ out.shaded
    /\ out.shader = "ShadowMapping_ps"
    /\ \A L \in 1 .. 2 :
          /\ InCone(px.light[L].coneDot, px.cb.cosHalfAngle[L])
          /\ px.light[L].nDotL > 0
          /\ px.light[L].proj.z = One \div 2
          /\ px.shadowMap[L] = [t \in TexelCoords |-> IF t[2] = 0 THEN One \div 2 ELSE One]
    /\ px.light[1].proj.y = One
    /\ px.light[2].proj.y = -One
    /\ out.contribution[1].diffuse = V3Zero
    /\ out.contribution[2].diffuse # V3Zero
    /\ DecidingRows(1) = {0}

\* light L of the pixel under evaluation is outside its cone or in shadow
Excluded(L) ==
    \/ px.light[L].coneDot <= px.cb.cosHalfAngle[L]
    \/ FDiv(px.light[L].proj.z, px.light[L].proj.w)
           >= PointClampSample(px.shadowMap[L], ShadowMapUV(px.light[L].proj))

\* C13: when each of the two lights is outside its cone or in shadow, the standard
\* lit pixel shader outputs exactly ambient * texture.rgb with alpha 1.0; with
\* ambient (0.2, 0.2, 0.3), texture RGB (1, 1, 1) and specular channel 0 the
\* output is (0.2, 0.2, 0.3, 1.0).
C13_AmbientOnlyOutput ==
    (out.shaded /\ out.shader = "ShadowMapping_ps" /\ Excluded(1) /\ Excluded(2)) =>
        /\ out.rgb = <<(px.cb.ambientColour[1] * px.texture.rgb[1]) \div One,
                       (px.cb.ambientColour[2] * px.texture.rgb[2]) \div One,
                       (px.cb.ambientColour[3] * px.texture.rgb[3]) \div One>>
        /\ out.a = One
        /\ (/\ px.cb.ambientColour = <<2, 2, 3>>
            /\ px.texture.rgb = <<One, One, One>>
            /\ px.texture.a = 0) => out.rgb = <<2, 2, 3>>

\* light 1 outside its cone, light 2 inside its cone but in shadow, white texture
C13_Witness ==
    /\ out.shaded
    /\ out.shader = "ShadowMapping_ps"
    /\ px.light[1].coneDot < px.cb.cosHalfAngle[1]
    /\ px.light[2].coneDot > px.cb.cosHalfAngle[2]
    /\ px.light[2].nDotL > 0
    /\ Excluded(2)
    /\ px.cb.ambientColour = <<2, 2, 3>>
    /\ px.texture = [rgb |-> <<One, One, One>>, a |-> 0]
    /\ out.rgb = <<2, 2, 3>>
    /\ out.a = One

\* C14: every pixel shader in the source (standard lit, cell shading, outline,
\* scrolling) writes alpha exactly 1.0, for every input: texture alpha, light
\* data and the effect scalars do not affect it.
C14_AlphaIsOne ==
    out.shaded =>
        /\ out.shader = CASE px.PS = "gPixelLightingPixelShader" -> "ShadowMapping_ps"
                          [] px.PS = "gCellShadingPixelShader" -> "CellShading_ps"
                          [] px.PS = "gCellShadingOutlinePixelShader" -> "CellShadingOutline_ps"
                          [] px.PS = "gScrollingPixelShader" -> "Scrolling_ps"
        /\ out.a = One

\* a scrolled pixel whose texel has alpha 0, under a shift that wraps the texture
C14_Witness ==
    /\ out.shaded
    /\ out.shader = "Scrolling_ps"
    /\ px.cb.shift > One
    /\ DiffuseMapSample(px.diffuseMap, <<px.uv[1], px.uv[2] + px.cb.shift>>).a = 0
    /\ out.a = One

\* C15: cell-shaded lighting is the standard lighting with one change only, the
\* lookup of max(dot(N, L), 0) in the 1-D cell map before the divide by the
\* distance; the cone test and the shadow test gate each light as in the standard
\* shader, so a light adds zero to a cell-shaded pixel outside its cone or in
\* its shadow.
C15_CellGatedLikeStandard ==
    (out.shaded /\ out.shader = "CellShading_ps") =>
        \A L \in 1 .. 2 :
            LET l       == px.light[L]
                diffuse == V3Over(V3Scale(px.cb.lightColour[L],
                                          CellMapSample(px.cellMap, Max2(l.nDotL, 0))),
                                  l.dist)
            IN  out.contribution[L] =
                    IF /\ InCone(l.coneDot, px.cb.cosHalfAngle[L])
                       /\ NotShadowed(l.proj, px.shadowMap[L])
                    THEN [diffuse  |-> diffuse,
                          specular |-> V3Scale(diffuse, Pow(Max2(l.nDotH, 0),
                                                            px.cb.specularPower))]
                    ELSE [diffuse |-> V3Zero, specular |-> V3Zero]

\* ====================================================== Shader.cpp, Common.h
\* largest value of a C++ int
IntMax == (2^30 - 1) * 2 + 1

\* a local pointer declared without an initialiser, before anything is stored in it
Uninitialised == "uninitialised"

\* the process has been terminated by a failed run-time check; nothing is returned
Aborted == "aborted"

\* struct PerFrameConstants, field by field, in 4-byte words (a float each)
PerFrameConstantsLayout ==
    << <<"viewMatrix", 16>>, <<"projectionMatrix", 16>>, <<"viewProjectionMatrix", 16>>,
       <<"light1Position", 3>>, <<"padding1", 1>>,
       <<"light1Colour", 3>>, <<"padding2", 1>>,
       <<"light1Facing", 3>>, <<"light1CosHalfAngle", 1>>,
       <<"light1ViewMatrix", 16>>, <<"light1ProjectionMatrix", 16>>,
       <<"light2Position", 3>>, <<"padding3", 1>>,
       <<"light2Colour", 3>>, <<"padding4", 1>>,
       <<"light2Facing", 3>>, <<"light2CosHalfAngle", 1>>,
       <<"light2ViewMatrix", 16>>, <<"light2ProjectionMatrix", 16>>,
       <<"ambientColour", 3>>, <<"specularPower", 1>>,
       <<"cameraPosition", 3>>, <<"padding5", 1>>,
       <<"wiggle", 1>>, <<"shift", 1>>, <<"fading", 1>> >>

\* struct PerModelConstants
PerModelConstantsLayout ==
    << <<"worldMatrix", 16>>, <<"objectColour", 3>>, <<"padding6", 1>> >>

RECURSIVE WordsOf(_)
WordsOf(layout) ==
    IF layout = <<>> THEN 0 ELSE Head(layout)[2] + WordsOf(Tail(layout))

\* sizeof: every member is made of floats, so the structure has no hidden padding
Sizeof(layout) == 4 * WordsOf(layout)

CreateConstantBufferMutant(size, deviceOK, strideOnStack) ==
    LET cbDesc == [ BindFlags           |-> "D3D11_BIND_CONSTANT_BUFFER",
                    ByteWidth           |-> 16 * (size \div 16),
                    Usage               |-> "D3D11_USAGE_DYNAMIC",
                    CPUAccessFlags      |-> "D3D11_CPU_ACCESS_WRITE",
                    MiscFlags           |-> 0,
                    StructureByteStride |-> strideOnStack ]
        constantBuffer == IF deviceOK THEN "ID3D11Buffer" ELSE Uninitialised
    IN  [ desc   |-> cbDesc,
          result |-> IF ~deviceOK THEN Null ELSE constantBuffer ]
\* CreateConstantBuffer(size): the description handed to CreateBuffer and the
\* pointer returned.  cbDesc is a local without initialiser and StructureByteStride
\* is never assigned: it holds whatever was on the stack (strideOnStack).
CreateConstantBuffer(size, deviceOK, strideOnStack) ==
    LET cbDesc == [ BindFlags           |-> "D3D11_BIND_CONSTANT_BUFFER",
                    ByteWidth           |-> 16 * ((size + 15) \div 16),
                    Usage               |-> "D3D11_USAGE_DYNAMIC",
                    CPUAccessFlags      |-> "D3D11_CPU_ACCESS_WRITE",
                    MiscFlags           |-> 0,
                    StructureByteStride |-> strideOnStack ]
        constantBuffer == IF deviceOK THEN "ID3D11Buffer" ELSE Uninitialised
    IN  [ desc   |-> cbDesc,
          result |-> IF ~deviceOK THEN Null ELSE constantBuffer ]

\* ------------------------------------------------------ LoadVertexShader, LoadPixelShader
\* what the loader finds for "<shaderName>.cso":
\*   missing    the file cannot be opened
\*   empty      the file opens and has length 0
\*   unreadable the file opens and read() fails
\*   rejected   the file is read and the device fails to create the shader
\*   good       the file is read and the device creates the shader
FileStates == {"missing", "empty", "unreadable", "rejected", "good"}

LoadVertexShaderMutant(shaderName, file, checkedBuild) ==
    IF file = "missing" THEN Null
    ELSE IF file = "empty" /\ checkedBuild THEN Aborted
    ELSE IF file = "unreadable" THEN Null
    ELSE LET hrFailed == file # "good"
             shader   == IF hrFailed THEN Uninitialised ELSE shaderName
         IN  shader
\* byteCode is std::vector<char>(fileSize); &byteCode[0] on an empty vector is
\* outside the vector: a checked build terminates the process, an unchecked one
\* goes on to read 0 bytes and to hand the device an empty byte code, which it rejects
LoadVertexShader(shaderName, file, checkedBuild) ==
    IF file = "missing" THEN Null
    ELSE IF file = "empty" /\ checkedBuild THEN Aborted
    ELSE IF file = "unreadable" THEN Null
    ELSE LET hrFailed == file # "good"
             shader   == IF hrFailed THEN Uninitialised ELSE shaderName
         IN  IF hrFailed THEN Null ELSE shader

LoadPixelShader(shaderName, file, checkedBuild) ==
    IF file = "missing" THEN Null
    ELSE IF file = "empty" /\ checkedBuild THEN Aborted
    ELSE IF file = "unreadable" THEN Null
    ELSE LET hrFailed == file # "good"
             shader   == IF hrFailed THEN Uninitialised ELSE shaderName
         IN  IF hrFailed THEN Null ELSE shader

\* ------------------------------------------------------ LoadShaders
\* the twelve assignments of LoadShaders, in program order
ShaderLoads ==
    << [global |-> "gPixelLightingVertexShader",      stage |-> "vertex", name |-> "ShadowMapping_vs"],
       [global |-> "gPixelLightingPixelShader",       stage |-> "pixel",  name |-> "ShadowMapping_ps"],
       [global |-> "gBasicTransformVertexShader",     stage |-> "vertex", name |-> "BasicTransform_vs"],
       [global |-> "gLightModelPixelShader",          stage |-> "pixel",  name |-> "LightModel_ps"],
       [global |-> "gDepthOnlyPixelShader",           stage |-> "pixel",  name |-> "DepthOnly_ps"],
       [global |-> "gWigglingVertexShader",           stage |-> "vertex", name |-> "Wiggling_vs"],
       [global |-> "gScrollingPixelShader",           stage |-> "pixel",  name |-> "Scrolling_ps"],
       [global |-> "gMixingTexturesPixelShader",      stage |-> "pixel",  name |-> "MixingTextures_ps"],
       [global |-> "gCellShadingVertexShader",        stage |-> "vertex", name |-> "CellShading_vs"],
       [global |-> "gCellShadingPixelShader",         stage |-> "pixel",  name |-> "CellShading_ps"],
       [global |-> "gCellShadingOutlineVertexShader", stage |-> "vertex", name |-> "CellShadingOutline_vs"],
       [global |-> "gCellShadingOutlinePixelShader",  stage |-> "pixel",  name |-> "CellShadingOutline_ps"] >>

ShaderGlobals == { ShaderLoads[i].global : i \in 1 .. Len(ShaderLoads) }
ShaderNames   == { ShaderLoads[i].name : i \in 1 .. Len(ShaderLoads) }

\* the value the i-th load produces
LoadOf(i, files, checkedBuild) ==
    IF ShaderLoads[i].stage = "vertex"
    THEN LoadVertexShader(ShaderLoads[i].name, files[ShaderLoads[i].name], checkedBuild)
    ELSE LoadPixelShader(ShaderLoads[i].name, files[ShaderLoads[i].name], checkedBuild)

AnyShaderNullMutant(ptr) ==
    \E g \in ShaderGlobals \ {"gWigglingVertexShader"} : ptr[g] = Null
\* the condition of the if in LoadShaders
AnyShaderNull(ptr) ==
    \E g \in ShaderGlobals : ptr[g] = Null

\* LoadShaders: every load is made, whatever the earlier ones returned, unless one
\* of them terminates the process; then one test of the twelve pointers
LoadShaders(ptr, gLastError, files, checkedBuild) ==
    LET n       == Len(ShaderLoads)
        stopped == { i \in 1 .. n : LoadOf(i, files, checkedBuild) = Aborted }
        made    == IF stopped = {} THEN n
                   ELSE (CHOOSE i \in stopped : \A j \in stopped : i <= j) - 1
        loaded  == [ g \in DOMAIN ptr |->
                       IF \E i \in 1 .. made : ShaderLoads[i].global = g
                       THEN LET i == CHOOSE i \in 1 .. made : ShaderLoads[i].global = g
                            IN  LoadOf(i, files, checkedBuild)
                       ELSE ptr[g] ]
        loads   == [ i \in 1 .. Min2(made + 1, n) |-> ShaderLoads[i].name ]
    IN  IF stopped # {}
        THEN [ result |-> Aborted, ptr |-> loaded, loads |-> loads,
               gLastError |-> gLastError ]
        ELSE IF AnyShaderNull(loaded)
        THEN [ result |-> "false", ptr |-> loaded, loads |-> loads,
               gLastError |-> "Error loading shaders" ]
        ELSE [ result |-> "true", ptr |-> loaded, loads |-> loads,
               gLastError |-> gLastError ]

\* ====================================================== InitGeometry (Scene.cpp)
\* the mesh globals, in the order InitGeometry constructs them
Meshes ==
    <<"gTeapotMesh", "gSphereMesh", "gCubeMesh", "gFloorMesh", "gLightMesh", "gTrollMesh">>

\* the texture / view pairs, in the order of the LoadTexture calls
Textures ==
    << <<"gTeapotDiffuseSpecularMap", "gTeapotDiffuseSpecularMapSRV">>,
       <<"gSphereDiffuseSpecularMap", "gSphereDiffuseSpecularMapSRV">>,
       <<"gCubeDiffuseSpecularMap",   "gCubeDiffuseSpecularMapSRV">>,
       <<"gFloorDiffuseSpecularMap",  "gFloorDiffuseSpecularMapSRV">>,
       <<"gLightDiffuseMap",          "gLightDiffuseMapSRV">>,
       <<"gTrollDiffuseMap",          "gTrollDiffuseMapSRV">>,
       <<"gCellMap",                  "gCellMapSRV">> >>

ConstantBuffers == {"gPerFrameConstantBuffer", "gPerModelConstantBuffer"}

ShadowMapObjects ==
    { "gShadowMap1Texture", "gShadowMap1DepthStencil", "gShadowMap1SRV",
      "gShadowMap2Texture", "gShadowMap2DepthStencil", "gShadowMap2SRV" }

\* every pointer InitGeometry fills in; "states" stands for the objects of CreateStates
Resources ==
    { Meshes[i] : i \in 1 .. Len(Meshes) } \cup ShaderGlobals \cup ConstantBuffers
        \cup { Textures[i][k] : i \in 1 .. Len(Textures), k \in 1 .. 2 }
        \cup ShadowMapObjects \cup {"states"}

\* e.what() of the std::runtime_error a Mesh constructor throws: a description of
\* the load error
MeshExceptionText == "Error loading mesh"

\* the steps of InitGeometry in program order, with the message each leaves in
\* gLastError when it fails; the mesh message is the text of the exception
InitSteps ==
    << [step |-> "meshes",                  error |-> MeshExceptionText],
       [step |-> "shaders",                 error |-> "Error loading shaders"],
       [step |-> "constantBuffers",         error |-> "Error creating constant buffers"],
       [step |-> "textures",                error |-> "Error loading textures"],
       [step |-> "gShadowMap1Texture",      error |-> "Error creating shadow map texture"],
       [step |-> "gShadowMap1DepthStencil", error |-> "Error creating shadow map depth stencil view"],
       [step |-> "gShadowMap1SRV",          error |-> "Error creating shadow map shader resource view"],
       [step |-> "gShadowMap2Texture",      error |-> "Error creating shadow map texture"],
       [step |-> "gShadowMap2DepthStencil", error |-> "Error creating shadow map depth stencil view"],
       [step |-> "gShadowMap2SRV",          error |-> "Error creating shadow map shader resource view"],
       [step |-> "states",                  error |-> "Error creating states"] >>

StepIndex(step) == CHOOSE i \in 1 .. Len(InitSteps) : InitSteps[i].step = step

\* where control goes after a step that succeeded
StepAfter(step) ==
    IF StepIndex(step) = Len(InitSteps) THEN "return true"
    ELSE InitSteps[StepIndex(step) + 1].step

\* the objects InitScene creates with new, in the order it creates them, each with
\* the mesh its constructor is given (the camera has none)
SceneObjects ==
    << [object |-> "gTeapot",          mesh |-> "gTeapotMesh"],
       [object |-> "gSphere",          mesh |-> "gSphereMesh"],
       [object |-> "gCube",            mesh |-> "gCubeMesh"],
       [object |-> "gFloor",           mesh |-> "gFloorMesh"],
       [object |-> "gTroll",           mesh |-> "gTrollMesh"],
       [object |-> "gLights[0].model", mesh |-> "gLightMesh"],
       [object |-> "gLights[1].model", mesh |-> "gLightMesh"],
       [object |-> "gCamera",          mesh |-> "none"] >>

SceneObjectNames == { SceneObjects[i].object : i \in 1 .. Len(SceneObjects) }

\* globals before InitGeometry is called: null pointers, empty gLastError
InitialApp ==
    [ at          |-> InitSteps[1].step,
      ret         |-> "none",
      gLastError  |-> "",
      ptr         |-> [r \in Resources |-> Null],
      steps       |-> <<>>,
      failed      |-> "none",
      loads       |-> <<>>,
      files       |-> [n \in ShaderNames |-> "good"],
      checked     |-> FALSE,
      loadShaders |-> "none",
      models      |-> [m \in SceneObjectNames |-> Null],
      atRelease   |-> [r \in Resources \cup SceneObjectNames |-> Null],
      touched     |-> <<>> ]

StepTakenMutant(a, step, ok, ptr) ==
    LET a1 == [a EXCEPT !.steps = Append(@, step), !.ptr = ptr]
    IN  IF ok THEN [a1 EXCEPT !.at = StepAfter(step)]
        ELSE IF step = "gShadowMap2SRV"
        THEN [a1 EXCEPT !.at = StepAfter(step), !.failed = step,
                        !.gLastError = InitSteps[StepIndex(step)].error]
        ELSE [a1 EXCEPT !.at = "returned", !.ret = "false", !.failed = step,
                        !.gLastError = InitSteps[StepIndex(step)].error]
\* one step of InitGeometry has run and left ptr: go on when it succeeded, else
\* set gLastError and return false
StepTaken(a, step, ok, ptr) ==
    LET a1 == [a EXCEPT !.steps = Append(@, step), !.ptr = ptr]
    IN  IF ok THEN [a1 EXCEPT !.at = StepAfter(step)]
        ELSE [a1 EXCEPT !.at = "returned", !.ret = "false", !.failed = step,
                        !.gLastError = InitSteps[StepIndex(step)].error]

initOther == <<pc, scene, gPerFrameConstants, gPerModelConstants, ctx, gpu, gpuLog,
               prevLast, frames, presents, updates, px, out, cbuf>>

\* try { six new Mesh(...) } catch (std::runtime_error e): the first k constructors
\* succeed; the next one, if any, throws and its assignment does not happen
IG_Meshes ==
    /\ app.at = "meshes"
    /\ \E k \in 0 .. Len(Meshes) :
          app' = StepTaken(app, "meshes", k = Len(Meshes),
                           [r \in Resources |->
                               IF \E i \in 1 .. k : Meshes[i] = r THEN r ELSE app.ptr[r]])
    /\ UNCHANGED initOther

\* most shader files that are not good in one run of LoadShaders
MaxBadFiles == 2

\* what is on the stack where cbDesc.StructureByteStride lies
StackGarbage == {0, 16}

\* if (!LoadShaders()) { gLastError = "Error loading shaders"; return false; }
IG_LoadShaders ==
    /\ app.at = "shaders"
    /\ \E bad \in { b \in SUBSET ShaderNames : Cardinality(b) <= MaxBadFiles } :
       \E kinds \in [bad -> FileStates \ {"good"}] :
       \E checkedBuild \in BOOLEAN :
          LET files == [n \in ShaderNames |-> IF n \in bad THEN kinds[n] ELSE "good"]
              r     == LoadShaders(app.ptr, app.gLastError, files, checkedBuild)
              a1    == [app EXCEPT !.files = files, !.checked = checkedBuild,
                                   !.loads = r.loads, !.loadShaders = r.result,
                                   !.gLastError = r.gLastError]
          IN  app' = IF r.result = Aborted
                     THEN [a1 EXCEPT !.at = Aborted, !.ptr = r.ptr,
                                     !.steps = Append(@, "shaders")]
                     ELSE StepTaken(a1, "shaders", r.result = "true", r.ptr)
    /\ UNCHANGED initOther

\* both buffers are created, then one test of the two pointers
IG_ConstantBuffers ==
    /\ app.at = "constantBuffers"
    /\ \E ok1 \in BOOLEAN, ok2 \in BOOLEAN, stride \in StackGarbage :
          LET perFrame == CreateConstantBuffer(Sizeof(PerFrameConstantsLayout), ok1, stride)
              perModel == CreateConstantBuffer(Sizeof(PerModelConstantsLayout), ok2, stride)
              ptr      == [app.ptr EXCEPT !["gPerFrameConstantBuffer"] = perFrame.result,
                                          !["gPerModelConstantBuffer"] = perModel.result]
          IN  app' = StepTaken(app, "constantBuffers",
                               ~(perFrame.result = Null \/ perModel.result = Null), ptr)
    /\ UNCHANGED initOther

\* the seven LoadTexture calls joined by ||: the first k succeed, the next one, if
\* any, fails and the rest are not made
IG_Textures ==
    /\ app.at = "textures"
    /\ \E k \in 0 .. Len(Textures) :
          app' = StepTaken(app, "textures", k = Len(Textures),
                           [r \in Resources |->
                               IF \E i \in 1 .. k : r \in {Textures[i][1], Textures[i][2]}
                               THEN r ELSE app.ptr[r]])
    /\ UNCHANGED initOther

\* CreateTexture2D / CreateDepthStencilView / CreateShaderResourceView of a shadow map
IG_ShadowMapObject(object) ==
    /\ app.at = object
    /\ \E ok \in BOOLEAN :
          app' = StepTaken(app, object, ok,
                           [app.ptr EXCEPT ![object] = IF ok THEN object ELSE Null])
    /\ UNCHANGED initOther

\* if (!CreateStates()) { gLastError = "Error creating states"; return false; }
IG_CreateStates ==
    /\ app.at = "states"
    /\ \E ok \in BOOLEAN :
          app' = StepTaken(app, "states", ok,
                           [app.ptr EXCEPT !["states"] = IF ok THEN "states" ELSE Null])
    /\ UNCHANGED initOther

\* return true;
IG_ReturnTrue ==
    /\ app.at = "return true"
    /\ app' = [app EXCEPT !.at = "returned", !.ret = "true"]
    /\ UNCHANGED initOther

InitGeometryCalled ==
    /\ pc = Idle
    /\ scene = InitialScene
    /\ gPerFrameConstants = InitialPerFrameConstants
    /\ gPerModelConstants = InitialPerModelConstants
    /\ ctx = InitialContext
    /\ gpu = InitialGpu
    /\ gpuLog = <<>>
    /\ prevLast = NoDraw
    /\ frames = 0
    /\ presents = 0
    /\ updates = 0
    /\ px = NoPixel
    /\ out = NoOutput
    /\ app = InitialApp
    /\ cbuf = NoBuffer

NextInitGeometry ==
    \/ IG_Meshes
    \/ IG_LoadShaders
    \/ IG_ConstantBuffers
    \/ IG_Textures
    \/ \E object \in ShadowMapObjects : IG_ShadowMapObject(object)
    \/ IG_CreateStates
    \/ IG_ReturnTrue

SpecInitGeometry == InitGeometryCalled /\ [][NextInitGeometry]_vars

\* C16: if any step of InitGeometry fails (mesh loading, shader loading,
\* constant-buffer creation, texture loading, creation of either shadow map's
\* texture, depth view or shader view, state creation), InitGeometry returns false
\* with gLastError set to the non-empty message of that step and no later step is
\* executed; it returns true only when every step succeeded.
C16_InitGeometryFailsFast ==
    LET stepsRun == [i \in 1 .. Len(app.steps) |-> InitSteps[i].step]
    IN  /\ app.steps = stepsRun
        /\ app.failed # "none" =>
              /\ app.ret = "false"
              /\ app.at = "returned"
              /\ app.steps[Len(app.steps)] = app.failed
              /\ app.gLastError # ""
              /\ app.gLastError = InitSteps[StepIndex(app.failed)].error
        /\ app.ret = "false" => app.failed # "none"
        /\ app.ret = "true" =>
              /\ app.failed = "none"
              /\ Len(app.steps) = Len(InitSteps)
              /\ \A r \in Resources : app.ptr[r] # Null

\* the second shadow map's shader view failed after ten steps that succeeded
C16_Witness ==
    /\ app.ret = "false"
    /\ app.failed = "gShadowMap2SRV"
    /\ Len(app.steps) = 10
    /\ app.ptr["gShadowMap2DepthStencil"] # Null
    /\ app.ptr["states"] = Null
    /\ app.gLastError = "Error creating shadow map shader resource view"

\* C17: LoadShaders returns true if and only if all twelve shaders (five vertex,
\* seven pixel) loaded non-null; if any one is null it returns false and sets
\* gLastError to "Error loading shaders"; it attempts to load all twelve whatever
\* the earlier loads returned.
C17_LoadShadersAllOrNothing ==
    app.loadShaders \in {"true", "false"} =>
        /\ Cardinality({ i \in 1 .. Len(ShaderLoads) : ShaderLoads[i].stage = "vertex" }) = 5
        /\ Cardinality({ i \in 1 .. Len(ShaderLoads) : ShaderLoads[i].stage = "pixel" }) = 7
        /\ Cardinality(ShaderGlobals) = 12
        /\ app.loads = [i \in 1 .. 12 |-> ShaderLoads[i].name]
        /\ app.loadShaders = "true" <=> (\A g \in ShaderGlobals : app.ptr[g] # Null)
        /\ app.loadShaders = "false" => app.gLastError = "Error loading shaders"

\* the first load fails, the last one fails, the ten between them are still made
C17_Witness ==
    /\ app.loadShaders = "false"
    /\ app.ptr["gPixelLightingVertexShader"] = Null
    /\ app.ptr["gCellShadingOutlinePixelShader"] = Null
    /\ \A g \in ShaderGlobals \ {"gPixelLightingVertexShader", "gCellShadingOutlinePixelShader"} :
          app.ptr[g] # Null
    /\ Len(app.loads) = 12
    /\ app.gLastError = "Error loading shaders"

\* C18: LoadVertexShader and LoadPixelShader return nullptr on every failure path
\* (the .cso file cannot be opened, reading it fails, the device fails to create
\* the shader) and never an uninitialised pointer; they return the created shader
\* only when all three steps succeeded.  Stated of every load that returned.
C18_LoadReturnsNullOrShader ==
    \A i \in 1 .. Len(app.loads) :
        LET load     == ShaderLoads[i]
            returned == ~(app.loadShaders = Aborted /\ i = Len(app.loads))
        IN  returned =>
                /\ app.ptr[load.global] # Uninitialised
                /\ app.ptr[load.global] # Aborted
                /\ app.files[load.name] = "good" <=> app.ptr[load.global] = load.name
                /\ app.files[load.name] # "good" <=> app.ptr[load.global] = Null

\* a vertex shader the device rejects and a pixel shader whose file cannot be read
C18_Witness ==
    /\ app.loadShaders = "false"
    /\ app.files["Wiggling_vs"] = "rejected"
    /\ app.files["Scrolling_ps"] = "unreadable"
    /\ app.ptr["gWigglingVertexShader"] = Null
    /\ app.ptr["gScrollingPixelShader"] = Null
    /\ app.ptr["gCellShadingVertexShader"] = "CellShading_vs"
    /\ app.ptr["gCellShadingPixelShader"] = "CellShading_ps"

\* ====================================================== constant buffers
\* sizes explored lie within SizeSpan of 1 and of the largest size for which
\* size + 15 is still an int
SizeSpan == 40

BufferSizes ==
    (1 .. SizeSpan) \cup ((IntMax - 15 - SizeSpan) .. (IntMax - 15))
        \cup {Sizeof(PerFrameConstantsLayout), Sizeof(PerModelConstantsLayout)}

\* uploads made to one buffer, and distinct values uploaded
MaxUploads == 2

\* the structures the program uploads, by the size their buffer is created with
StructLayouts == {PerFrameConstantsLayout, PerModelConstantsLayout}

\* the member that word i (from 1) of a structure belongs to
RECURSIVE FieldAt(_, _)
FieldAt(layout, i) ==
    IF i <= Head(layout)[2] THEN Head(layout)[1]
    ELSE FieldAt(Tail(layout), i - Head(layout)[2])

PaddingFields == {"padding1", "padding2", "padding3", "padding4", "padding5", "padding6"}

\* a word of buffer memory nothing has been stored in
UndefinedWord == [field |-> "undefined", value |-> -1]

\* the words of the global structure holding value c: the program assigns every
\* member except the padding ones, which keep the zero a global starts with
StructWords(layout, c) ==
    [ i \in 1 .. WordsOf(layout) |->
        [ field |-> FieldAt(layout, i),
          value |-> IF FieldAt(layout, i) \in PaddingFields THEN 0 ELSE c ] ]

\* UpdateConstantBuffer(buffer, data): map the buffer for writing, discarding what
\* it held (the mapped memory is `fresh`), copy the sizeof(data) bytes of data to
\* its start, unmap.  Yields the buffer's words and the set of words written.
CopyToBuffer(byteWidth, fresh, data) ==
    [ words   |-> [ i \in 1 .. byteWidth \div 4 |->
                      IF i <= Len(data) THEN data[i] ELSE fresh[i] ],
      written |-> { i \in 1 .. byteWidth \div 4 : i <= Len(data) } ]

\* a call of CreateConstantBuffer(size) is about to be made
BufferRequests ==
    { [created |-> FALSE, at |-> "requested", size |-> s] : s \in BufferSizes }

\* CreateConstantBuffer(size); the buffer is created without initial data
CB_Create ==
    /\ ~cbuf.created
    /\ cbuf.at = "requested"
    /\ \E deviceOK \in BOOLEAN, stride \in StackGarbage :
          LET r == CreateConstantBuffer(cbuf.size, deviceOK, stride)
          IN  cbuf' = [ created  |-> deviceOK,
                        at       |-> "returned",
                        size     |-> cbuf.size,
                        deviceOK |-> deviceOK,
                        desc     |-> r.desc,
                        result   |-> r.result,
                        words    |-> IF \E l \in StructLayouts : Sizeof(l) = cbuf.size
                                     THEN [i \in 1 .. r.desc.ByteWidth \div 4 |-> UndefinedWord]
                                     ELSE <<>>,
                        written  |-> {},
                        data     |-> <<>>,
                        uploads  |-> 0 ]
    /\ UNCHANGED <<pc, scene, gPerFrameConstants, gPerModelConstants, ctx, gpu, gpuLog,
                   prevLast, frames, presents, updates, px, out, app>>

\* UpdateConstantBuffer(gPerFrameConstantBuffer, gPerFrameConstants), or the same
\* for the per-model pair, with the structure holding value c
CB_Update ==
    /\ cbuf.created
    /\ cbuf.uploads < MaxUploads
    /\ \E layout \in StructLayouts, c \in 1 .. MaxUploads, keep \in BOOLEAN :
          /\ Sizeof(layout) = cbuf.size
          /\ LET fresh == IF keep THEN cbuf.words
                          ELSE [i \in 1 .. Len(cbuf.words) |-> UndefinedWord]
                 r     == CopyToBuffer(cbuf.desc.ByteWidth, fresh, StructWords(layout, c))
             IN  cbuf' = [cbuf EXCEPT !.words = r.words, !.written = r.written,
                                      !.data = StructWords(layout, c),
                                      !.uploads = @ + 1]
    /\ UNCHANGED <<pc, scene, gPerFrameConstants, gPerModelConstants, ctx, gpu, gpuLog,
                   prevLast, frames, presents, updates, px, out, app>>

BufferRequested ==
    /\ pc = Idle
    /\ scene = InitialScene
    /\ gPerFrameConstants = InitialPerFrameConstants
    /\ gPerModelConstants = InitialPerModelConstants
    /\ ctx = InitialContext
    /\ gpu = InitialGpu
    /\ gpuLog = <<>>
    /\ prevLast = NoDraw
    /\ frames = 0
    /\ presents = 0
    /\ updates = 0
    /\ px = NoPixel
    /\ out = NoOutput
    /\ app = Running
    /\ cbuf \in BufferRequests

NextBuffer ==
    \/ CB_Create
    \/ CB_Update

SpecBuffer == BufferRequested /\ [][NextBuffer]_vars

\* C19: CreateConstantBuffer(size) asks the device for ByteWidth equal to the
\* smallest multiple of 16 that is >= size, for every size from 1 up to the
\* largest int for which size + 15 does not overflow (a multiple of 16 is kept
\* unchanged), and returns nullptr when the device fails to create the buffer.
C19_ByteWidthRoundedUpTo16 ==
    (~cbuf.created /\ cbuf.at = "requested") \/
        /\ cbuf.size >= 1
        /\ cbuf.size <= IntMax - 15
        /\ cbuf.desc.ByteWidth % 16 = 0
        /\ cbuf.desc.ByteWidth >= cbuf.size
        /\ cbuf.desc.ByteWidth - 16 < cbuf.size
        /\ cbuf.size % 16 = 0 => cbuf.desc.ByteWidth = cbuf.size
        /\ ~cbuf.deviceOK => cbuf.result = Null
        /\ cbuf.deviceOK => cbuf.result = "ID3D11Buffer"

\* the largest size admitted, a multiple of 16, refused by the device
C19_Witness ==
    /\ cbuf.at = "returned"
    /\ cbuf.size = IntMax - 15
    /\ cbuf.desc.ByteWidth = cbuf.size
    /\ ~cbuf.deviceOK
    /\ cbuf.result = Null

IS_InitScene ==
    /\ app.at = "returned"
    /\ app.ret = "true"
    /\ app' = [app EXCEPT !.at = "scene ready",
                          !.models = [m \in SceneObjectNames |-> m]]
    /\ UNCHANGED initOther

ShadowMapReleasesMutant(i) ==
    IF i = 1
    THEN <<"gShadowMap1Texture", "gShadowMap1DepthStencil", "gShadowMap1SRV">>
    ELSE <<"gShadowMap2Texture", "gShadowMap2DepthStencil", "gShadowMap2SRV">>
\* the three Release lines of shadow map i
ShadowMapReleases(i) ==
    IF i = 1
    THEN <<"gShadowMap1DepthStencil", "gShadowMap1SRV", "gShadowMap1Texture">>
    ELSE <<"gShadowMap2DepthStencil", "gShadowMap2SRV", "gShadowMap2Texture">>

\* the Release lines of the cell map and of the six textures
TextureReleases ==
    << "gCellMapSRV", "gCellMap",
       "gLightDiffuseMapSRV", "gLightDiffuseMap",
       "gFloorDiffuseSpecularMapSRV", "gFloorDiffuseSpecularMap",
       "gSphereDiffuseSpecularMapSRV", "gSphereDiffuseSpecularMap",
       "gCubeDiffuseSpecularMapSRV", "gCubeDiffuseSpecularMap",
       "gTeapotDiffuseSpecularMapSRV", "gTeapotDiffuseSpecularMap",
       "gTrollDiffuseMapSRV", "gTrollDiffuseMap" >>

\* ReleaseShaders (Shader.cpp)
ReleaseShaders ==
    << "gDepthOnlyPixelShader", "gLightModelPixelShader", "gBasicTransformVertexShader",
       "gPixelLightingPixelShader", "gPixelLightingVertexShader", "gWigglingVertexShader",
       "gScrollingPixelShader", "gMixingTexturesPixelShader", "gCellShadingVertexShader",
       "gCellShadingPixelShader", "gCellShadingOutlineVertexShader",
       "gCellShadingOutlinePixelShader" >>

\* the delete statements: light models, camera, models, then meshes
Deletes ==
    << "gLights[0].model", "gLights[1].model", "gCamera", "gFloor", "gSphere", "gCube",
       "gTeapot", "gTroll",
       "gLightMesh", "gFloorMesh", "gSphereMesh", "gCubeMesh", "gTeapotMesh", "gTrollMesh" >>

\* ReleaseStates releases the objects of CreateStates under a null check
ReleaseStates == <<"states">>

\* every pointer ReleaseResources visits, in program order
ReleaseOrder ==
    ReleaseStates \o ShadowMapReleases(1) \o ShadowMapReleases(2) \o TextureReleases
        \o <<"gPerModelConstantBuffer", "gPerFrameConstantBuffer">>
        \o ReleaseShaders \o Deletes

NullCheckedMutant(target, pointer) == target = "gCellMap" \/ pointer # Null
\* if (p) p->Release();  and  delete p;  act on the object only when p is not null
NullChecked(target, pointer) == pointer # Null

\* the pointers as ReleaseResources finds them
PointersOf(a) ==
    [ r \in Resources \cup SceneObjectNames |->
        IF r \in SceneObjectNames THEN a.models[r] ELSE a.ptr[r] ]

\* ReleaseResources: the objects acted on, in order, and the pointers afterwards
\* (delete is followed by an assignment of nullptr, Release is not)
ReleaseResources(a) ==
    LET before  == PointersOf(a)
        isDel   == { Deletes[i] : i \in 1 .. Len(Deletes) }
    IN  [a EXCEPT !.at        = "released",
                  !.atRelease = before,
                  !.touched   = SelectSeq(ReleaseOrder,
                                          LAMBDA t : NullChecked(t, before[t])),
                  !.ptr       = [r \in Resources |-> IF r \in isDel THEN Null ELSE a.ptr[r]],
                  !.models    = [m \in SceneObjectNames |-> Null]]

\* shutdown: after InitGeometry returned, with or without InitScene
RR_ReleaseResources ==
    /\ app.at \in {"returned", "scene ready"}
    /\ app' = ReleaseResources(app)
    /\ UNCHANGED initOther

NextLifecycle ==
    \/ NextInitGeometry
    \/ IS_InitScene
    \/ RR_ReleaseResources

SpecLifecycle == InitGeometryCalled /\ [][NextLifecycle]_vars

\* position of an object in the sequence of objects acted on (0: not acted on)
TouchedAt(t) ==
    IF \E i \in 1 .. Len(app.touched) : app.touched[i] = t
    THEN CHOOSE i \in 1 .. Len(app.touched) : app.touched[i] = t
    ELSE 0

\* each view with the resource it views
ViewsOf ==
    { <<"gShadowMap1DepthStencil", "gShadowMap1Texture">>,
      <<"gShadowMap1SRV", "gShadowMap1Texture">>,
      <<"gShadowMap2DepthStencil", "gShadowMap2Texture">>,
      <<"gShadowMap2SRV", "gShadowMap2Texture">> }
        \cup { <<Textures[i][2], Textures[i][1]>> : i \in 1 .. Len(Textures) }

SceneOfLog == pc # Idle

\* the light whose marker a draw is, for the draws of the light-marker loop
MarkerOf(e) == CHOOSE i \in Lights : scene.gLights[i].model = e.arg

\* the draw's per-model constants hold the drawn model's own world matrix
OwnWorldMatrix(e) == e.pm.worldMatrix = WorldMatrix(scene, e.arg)

\* the draw of marker i has the colour of light i as its tint
OwnMarkerTint(e) ==
    e.arg \in LightModels => e.pm.objectColour = scene.gLights[MarkerOf(e)].colour

\* a tint that no marker of this frame or of an earlier one has left behind:
\* the tint is only ever written for a marker, so it is the initial one
NoLeftOverTint(e) ==
    e.arg \notin LightModels =>
        e.pm.objectColour = InitialPerModelConstants.objectColour

C22_OwnMatrixAndMarkerTint ==
    SceneOfLog =>
        \A n \in DrawIdx : OwnWorldMatrix(gpuLog[n]) /\ OwnMarkerTint(gpuLog[n])


\* ------------------------------------------------ techniques of the camera pass
\* InitGeometry: the file each texture view is loaded from
TextureFileOf(srv) ==
    CASE srv = "gTeapotDiffuseSpecularMapSRV" -> "Textures/PatternDiffuseSpecular.dds"
      [] srv = "gSphereDiffuseSpecularMapSRV" -> "Textures/PatternDiffuseSpecular.dds"
      [] srv = "gCubeDiffuseSpecularMapSRV"   -> "Textures/StoneDiffuseSpecular.dds"
      [] srv = "gFloorDiffuseSpecularMapSRV"  -> "Textures/WoodDiffuseSpecular.dds"
      [] srv = "gLightDiffuseMapSRV"          -> "Textures/Flare.jpg"
      [] srv = "gTrollDiffuseMapSRV"          -> "Textures/Green.png"
      [] srv = "gCellMapSRV"                  -> "Textures/CellGradient.png"
      [] OTHER                                -> "none"

\* the draws of the camera pass of the logged frame, in the order issued
CameraDraws == SelectSeq(gpuLog, LAMBDA e : e.op = "draw" /\ e.pass = "Camera")

\* RenderSceneFromCamera: the models in the order of their Render() calls
CameraDrawOrder ==
    <<"gFloor", "gTeapot", "gCube", "gSphere", "gTroll", "gTroll", "gLights0", "gLights1">>

\* the technique the claim names for the k-th draw of the camera pass
TechniqueNamed(k, c) ==
    CASE k = 1 -> /\ c.VS = "gPixelLightingVertexShader"
                  /\ c.PS = "gPixelLightingPixelShader"
                  /\ c.psSRV[0] = "gFloorDiffuseSpecularMapSRV"
      [] k = 2 -> /\ c.VS = "gPixelLightingVertexShader"
                  /\ c.PS = "gPixelLightingPixelShader"
                  /\ c.psSRV[0] = "gTeapotDiffuseSpecularMapSRV"
      [] k = 3 -> /\ c.VS = "gPixelLightingVertexShader"
                  /\ c.PS = "gMixingTexturesPixelShader"
                  /\ TextureFileOf(c.psSRV[0]) = "Textures/StoneDiffuseSpecular.dds"
                  /\ TextureFileOf(c.psSRV[3]) = "Textures/WoodDiffuseSpecular.dds"
      [] k = 4 -> /\ c.VS = "gWigglingVertexShader"
                  /\ c.PS = "gScrollingPixelShader"
      [] k \in {7, 8} ->
                  /\ c.VS = "gBasicTransformVertexShader"
                  /\ c.PS = "gLightModelPixelShader"
                  /\ TextureFileOf(c.psSRV[0]) = "Textures/Flare.jpg"
                  /\ c.blendState = "gAdditiveBlendingState"
                  /\ c.depthStencilState = "gDepthReadOnlyState"
                  /\ c.rasterState = "gCullNoneState"
      [] OTHER -> TRUE

\* C23: the draws of the camera pass are, in this order, floor, teapot, cube,
\* sphere, troll (outline), troll, marker of light 0, marker of light 1, and
\* each is issued with the shaders, textures and states of its own technique
\* bound at the moment of the draw; the blended markers come after every
\* opaque model
C23_CameraGroupsOwnTechnique ==
    LET draws == CameraDraws
    IN  /\ Len(draws) <= Len(CameraDrawOrder)
        /\ \A k \in 1 .. Len(draws) :
              /\ draws[k].arg = CameraDrawOrder[k]
              /\ TechniqueNamed(k, draws[k].ctx)
              /\ draws[k].arg \notin LightModels
                    => draws[k].ctx.blendState = "gNoBlendingState"

\* a second frame has drawn all eight groups of its camera pass
C23_Witness ==
    /\ frames = 2
    /\ Len(CameraDraws) = Len(CameraDrawOrder)
    /\ CameraDraws[8].ctx.blendState = "gAdditiveBlendingState"


\* ------------------------------------------------------- the troll's two passes
\* the draws of the troll in the camera pass of the logged frame, in order
TrollDraws == SelectSeq(CameraDraws, LAMBDA e : e.arg = "gTroll")

\* the pipeline of the outline pass
OutlinePass(c) ==
    /\ c.VS = "gCellShadingOutlineVertexShader"
    /\ c.PS = "gCellShadingOutlinePixelShader"
    /\ c.rasterState = "gCullFrontState"
    /\ c.blendState = "gNoBlendingState"
    /\ c.depthStencilState = "gUseDepthBufferState"

\* the pipeline of the cell-shading pass
CellShadingPass(c) ==
    /\ c.VS = "gCellShadingVertexShader"
    /\ c.PS = "gCellShadingPixelShader"
    /\ c.rasterState = "gCullBackState"
    /\ c.psSRV[0] = "gTrollDiffuseMapSRV"
    /\ c.psSRV[1] = "gCellMapSRV"
    /\ c.psSampler[1] = "gPointSampler"

\* what the pixel shader bound for a draw returns for each of its pixels
OutlineColourFlat ==
    \A p \in OutlineInputs :
        /\ CellShadingOutline_ps(p).rgb = <<0, 0, 0>>
        /\ CellShadingOutline_ps(p).a = One

\* C24: in every frame the troll is drawn twice in the camera pass: first with
\* the outline shaders, front-face culling, no blending and the depth buffer in
\* use, a pass whose pixel shader returns (0,0,0,1) for every pixel; then with
\* the cell-shading shaders, back-face culling, the troll's diffuse map in
\* slot 0, the cell map in slot 1 and the point sampler in sampler slot 1
C24_TrollOutlineThenCellShading ==
    LET draws == TrollDraws
    IN  /\ Len(draws) <= 2
        /\ Len(draws) >= 1 =>
              /\ draws[1].group = "TrollOutline"
              /\ OutlinePass(draws[1].ctx)
              /\ OutlineColourFlat
        /\ Len(draws) = 2 =>
              /\ draws[2].group = "TrollCell"
              /\ CellShadingPass(draws[2].ctx)
        /\ PresentIdx # {} => Len(draws) = 2

\* a second frame has been presented with both passes of the troll
C24_Witness ==
    /\ frames = 2
    /\ PresentIdx # {}
    /\ Len(TrollDraws) = 2
    /\ TrollDraws[1].ctx.rasterState = "gCullFrontState"
    /\ TrollDraws[2].ctx.rasterState = "gCullBackState"


\* ------------------------------------------------------- scrolling and wiggling
\* the colour main of Scrolling_ps.hlsl makes of a texel
ScrolledColour(texel) ==
    <<FMul(texel.rgb[1], 3), FMul(texel.rgb[2], 7), FMul(texel.rgb[3], 2)>>

\* the scrolling shader's one lookup is at (UV.x, UV.y + shift)
ScrollingSamplesShiftedV ==
    \A p \in ScrollingInputs :
        /\ Scrolling_ps(p).rgb =
              ScrolledColour(DiffuseMapSample(p.diffuseMap,
                                              <<p.uv[1], p.uv[2] + p.cb.shift>>))
        /\ p.cb.shift = 0 =>
              Scrolling_ps(p).rgb = ScrolledColour(DiffuseMapSample(p.diffuseMap, p.uv))

\* what a frame uploads as shift and wiggle is what the last update left
UploadedAfterUpdate ==
    SceneOfLog =>
        \A n \in LogIdx :
            gpuLog[n].op \in {"upload", "draw"} =>
                /\ gpuLog[n].cb.shift = scene.gShift
                /\ gpuLog[n].cb.wiggle = scene.gWiggle

\* an update adds frameTime/2 to the shift and 6*frameTime to the wiggle, and
\* nothing else changes them
ScrollStep ==
    IF updates' # updates
    THEN \E frameTime \in FrameTimes :
            /\ scene'.gShift = scene.gShift + frameTime \div 2
            /\ scene'.gWiggle = scene.gWiggle + 6 * frameTime
            /\ scene'.gShift >= scene.gShift
            /\ scene'.gWiggle >= scene.gWiggle
    ELSE /\ scene'.gShift = scene.gShift
         /\ scene'.gWiggle = scene.gWiggle

\* C25: the scrolling pixel shader samples its texture once, at UV with the
\* shift added to UV.y only, so at UV itself when the shift is 0; every
\* UpdateScene adds frameTime/2 to the shift and 6*frameTime to the wiggle and
\* nothing resets or wraps them, so neither ever decreases; and a frame uploads
\* the values the update before it left
C25_ShiftScrollsAndGrows ==
    /\ [](ScrollingSamplesShiftedV /\ UploadedAfterUpdate)
    /\ [][ScrollStep]_vars

\* after two updates that took time, a frame has drawn the sphere with the
\* grown shift and wiggle uploaded
C25_Witness ==
    /\ updates = 2
    /\ scene.gShift = 2
    /\ scene.gWiggle = 24
    /\ \E n \in CameraDrawIdx :
          /\ gpuLog[n].arg = "gSphere"
          /\ gpuLog[n].ctx.PS = "gScrollingPixelShader"
          /\ gpuLog[n].cb.shift = 2
          /\ gpuLog[n].cb.wiggle = 24


\* ------------------------------------------------ one light, one pair of matrices
\* the per-frame constants a shadow-pass draw of light i ran with are the ones
\* event c carries for light i
SameLightMatrices(e, c) ==
    /\ e.cb.viewMatrix = c.cb.light[e.light].ViewMatrix
    /\ e.cb.projectionMatrix = c.cb.light[e.light].ProjectionMatrix

\* the uploads of the per-frame constants and the draws that read them
UsesIdx == {n \in LogIdx : gpuLog[n].op \in {"upload", "draw"}}

\* C26: within a frame, the view and projection matrices light i's shadow map
\* is rendered with are the light-i matrices uploaded for the camera pass, the
\* light's transform being the same when RenderScene computes them and when
\* RenderDepthBufferFromLight computes them again; projection matrix and cone
\* cosine are the same for both lights
C26_ShadowAndCameraMatricesAgree ==
    /\ \A n \in {d \in DrawIdx : gpuLog[d].pass = "Shadow"} :
          \A m \in {u \in UsesIdx : gpuLog[u].pass = "Camera"} :
              SameLightMatrices(gpuLog[n], gpuLog[m])
    /\ SceneOfLog =>
          \A n \in UsesIdx, i \in Lights :
              /\ gpuLog[n].cb.light[i].ViewMatrix = CalculateLightViewMatrix(scene, i)
              /\ gpuLog[n].pass = "Shadow" /\ gpuLog[n].light = i
                    => gpuLog[n].cb.viewMatrix = CalculateLightViewMatrix(scene, i)
    /\ \A n \in UsesIdx, i \in Lights, j \in Lights :
          /\ gpuLog[n].cb.light[i].ProjectionMatrix = gpuLog[n].cb.light[j].ProjectionMatrix
          /\ gpuLog[n].cb.light[i].CosHalfAngle = gpuLog[n].cb.light[j].CosHalfAngle

\* a frame rendered after light 0 was moved by an update: both shadow maps are
\* drawn and the camera pass has uploaded its constants and drawn
C26_Witness ==
    /\ scene.models.gLights0.position.kind = "orbit"
    /\ \A i \in Lights : ShadowDrawIdx(i) # {}
    /\ UploadIdx("Camera", -1) # {}
    /\ CameraDrawIdx # {}


\* --------------------------------------------- states that stay with their group
\* one of the three states of the light markers
MarkerState(c) ==
    \/ c.blendState = "gAdditiveBlendingState"
    \/ c.depthStencilState = "gDepthReadOnlyState"
    \/ c.rasterState = "gCullNoneState"

\* the first draw of each pass of the logged frame
FirstDrawIdx ==
    {n \in DrawIdx :
        \A m \in DrawIdx :
            (gpuLog[m].pass = gpuLog[n].pass /\ gpuLog[m].light = gpuLog[n].light)
                => n <= m}

\* C27: over any sequence of frames, only light markers are drawn with additive
\* blending, read-only depth or no culling, and only shadow-pass draws and the
\* troll's outline with front-face culling; every pass has set its own blend,
\* depth-stencil and rasteriser state by its first draw, so the states of the
\* previous frame's markers reach no later draw
C27_StatesStayWithTheirGroup ==
    /\ \A n \in DrawIdx :
          /\ MarkerState(gpuLog[n].ctx) => gpuLog[n].group = "Lights"
          /\ gpuLog[n].ctx.rasterState = "gCullFrontState"
                => (gpuLog[n].pass = "Shadow" \/ gpuLog[n].group = "TrollOutline")
    /\ \A n \in FirstDrawIdx :
          /\ gpuLog[n].ctx.blendState = "gNoBlendingState"
          /\ gpuLog[n].ctx.depthStencilState = "gUseDepthBufferState"
          /\ gpuLog[n].ctx.rasterState =
                IF gpuLog[n].pass = "Shadow" THEN "gCullFrontState" ELSE "gCullBackState"

\* the frame before ended with a marker drawn in all three marker states, and
\* this frame has drawn in both shadow passes and in the camera pass
C27_Witness ==
    /\ prevLast.op = "draw"
    /\ prevLast.group = "Lights"
    /\ prevLast.ctx.blendState = "gAdditiveBlendingState"
    /\ prevLast.ctx.depthStencilState = "gDepthReadOnlyState"
    /\ prevLast.ctx.rasterState = "gCullNoneState"
    /\ \A i \in Lights : ShadowDrawIdx(i) # {}
    /\ \E n \in CameraDrawIdx : gpuLog[n].group = "Lights"


\* ---------------------------------------------- slots 1 and 2 of the lit shader
\* the draws issued with the standard lit pixel shader (ShadowMapping_ps) bound
LitDrawIdx == {n \in DrawIdx : gpuLog[n].ctx.PS = "gPixelLightingPixelShader"}

\* C28: in every frame each draw that uses the standard lit pixel shader (the
\* floor and the teapot) has shadow map 1 in pixel-shader slot 1 and shadow
\* map 2 in slot 2; the cell map, which the cell-shading pass binds to slot 1
\* later in the frame, is never in slot 1 at such a draw, neither from the
\* same frame nor left from the frame before
C28_LitDrawsSeeShadowMaps ==
    /\ \A n \in LitDrawIdx :
          /\ gpuLog[n].group \in {"Floor", "Teapot"}
          /\ gpuLog[n].ctx.psSRV[1] = gShadowMapSRV(0)
          /\ gpuLog[n].ctx.psSRV[2] = gShadowMapSRV(1)
          /\ gpuLog[n].ctx.psSRV[1] # "gCellMapSRV"
    /\ \A n \in CameraDrawIdx :
          gpuLog[n].group \in {"Floor", "Teapot"} => n \in LitDrawIdx

\* the frame before left the cell map in slot 1 at its last draw, and this
\* frame has drawn the floor and the teapot and then bound the cell map again
C28_Witness ==
    /\ prevLast.op = "draw"
    /\ prevLast.ctx.psSRV[1] = "gCellMapSRV"
    /\ \E n \in LitDrawIdx : gpuLog[n].group = "Floor"
    /\ \E n \in LitDrawIdx : gpuLog[n].group = "Teapot"
    /\ \E n \in CameraDrawIdx :
          gpuLog[n].group = "TrollCell" /\ gpuLog[n].ctx.psSRV[1] = "gCellMapSRV"


\* ------------------------------------------------ shutdown after a failed start
\* the step of InitGeometry that creates resource r
StepOf(r) ==
    IF r \in { Meshes[i] : i \in 1 .. Len(Meshes) } THEN "meshes"
    ELSE IF r \in ShaderGlobals THEN "shaders"
    ELSE IF r \in ConstantBuffers THEN "constantBuffers"
    ELSE IF r \in { Textures[i][k] : i \in 1 .. Len(Textures), k \in 1 .. 2 } THEN "textures"
    ELSE r

\* position of a statement's target in ReleaseResources
ReleasedAt(t) == CHOOSE i \in 1 .. Len(ReleaseOrder) : ReleaseOrder[i] = t

LightOnOrbit(sc, angle) ==
    /\ sc.models.gLights0.position = OrbitPos(sc.models.gTeapot.position.at, angle)
    /\ sc.models.gLights0.facing = sc.models.gTeapot.position

OrbitUpdate ==
    IF updates' # updates
    THEN /\ LightOnOrbit(scene', scene.rotate)
         /\ scene'.rotate =
               IF scene.go
               THEN scene.rotate - gLightOrbitSpeed * (scene'.totalTime - scene.totalTime)
               ELSE scene.rotate
         /\ scene'.go = IF scene'.key1HitsOdd # scene.key1HitsOdd THEN ~scene.go ELSE scene.go
    ELSE /\ scene'.rotate = scene.rotate
         /\ scene'.go = scene.go
         /\ scene'.models.gLights0 = scene.models.gLights0

====
